---- MODULE Spec2Model ----
(***************************************************************************)
(* grafty: line-range patching of text files.                              *)
(*                                                                         *)
(* The model covers grafty/patch.py (newline handling, the line-range      *)
(* primitive, drift validation, the temp-file-and-rename write),           *)
(* grafty/multi_file_patch.py (PatchSet.validate_all, generate_diffs and   *)
(* apply_atomic with its snapshot, drift re-check, write and rollback      *)
(* phases) and grafty/editor.py (the single-file Editor).                  *)
(*                                                                         *)
(* A file is a sequence of characters.  A character is a one-letter string *)
(* for payload, or one of the two terminators LF and CR.  Files are read   *)
(* and written through Python text-mode streams, which translate line      *)
(* terminators; that translation is part of the model (ReadText,           *)
(* WriteText).  The platform is POSIX (os.linesep is LF).                  *)
(***************************************************************************)
EXTENDS Integers, Sequences, FiniteSets, TLC

(***************************************************************************)
(* Bounds of the model.                                                    *)
(***************************************************************************)
MaxLines == 2
MaxExtWrites == 1
MaxFaults == 1
MaxEdits == 1
MaxWrites == 1

\* Editor.write calls on one Editor where a write follows a write.
MaxRewrites == 2
MaxNodes == 3
MaxMany == 11

LF == "LF"
CR == "CR"

\* An absent path, and an absent value next to a present one.
None == "None"
Absent == <<>>
Some(v) == <<v>>

Min(a, b) == IF a < b THEN a ELSE b
Max(a, b) == IF a > b THEN a ELSE b

(***************************************************************************)
(* Character-sequence helpers (str methods used by patch.py).              *)
(***************************************************************************)
StartsWith(s, p) == Len(s) >= Len(p) /\ SubSeq(s, 1, Len(p)) = p

EndsWith(s, p) == Len(s) >= Len(p) /\ SubSeq(s, Len(s) - Len(p) + 1, Len(s)) = p

Contains(s, p) == \E i \in 1..Len(s) : StartsWith(SubSeq(s, i, Len(s)), p)

RECURSIVE Replace(_, _, _)
Replace(s, old, new) ==
    IF s = <<>> THEN <<>>
    ELSE IF StartsWith(s, old)
         THEN new \o Replace(SubSeq(s, Len(old) + 1, Len(s)), old, new)
         ELSE <<Head(s)>> \o Replace(Tail(s), old, new)

RECURSIVE Join(_)
Join(ls) == IF ls = <<>> THEN <<>> ELSE Head(ls) \o Join(Tail(ls))

\* Index of the last character of the first line of a non-empty s
\* (str.splitlines boundaries: LF, CR and CR LF).
LineEnd(s) ==
    IF \E i \in 1..Len(s) : s[i] \in {LF, CR}
    THEN LET i == CHOOSE j \in 1..Len(s) :
                      /\ s[j] \in {LF, CR}
                      /\ \A k \in 1..(j - 1) : s[k] \notin {LF, CR}
         IN IF s[i] = CR /\ i < Len(s) /\ s[i + 1] = LF THEN i + 1 ELSE i
    ELSE Len(s)

RECURSIVE splitlines_keepends(_)
splitlines_keepends(s) ==
    IF s = <<>> THEN <<>>
    ELSE <<SubSeq(s, 1, LineEnd(s))>>
             \o splitlines_keepends(SubSeq(s, LineEnd(s) + 1, Len(s)))

\* len(content.splitlines())
LineCount(s) == Len(splitlines_keepends(s))

\* Python slice bounds: negative indices count from the end, all clamp.
PyIdx(i, n) == IF i < 0 THEN Max(n + i, 0) ELSE Min(i, n)

SliceTo(ls, i) == SubSeq(ls, 1, PyIdx(i, Len(ls)))

SliceFrom(ls, i) == SubSeq(ls, PyIdx(i, Len(ls)) + 1, Len(ls))

(***************************************************************************)
(* Text-mode I/O.  Path.read_text opens the file with universal newlines:  *)
(* CR LF and a lone CR both arrive as LF.  NamedTemporaryFile(mode="w")    *)
(* writes every LF as os.linesep.                                          *)
(***************************************************************************)
OsLinesep == <<LF>>

RECURSIVE ReadText(_)
ReadText(b) ==
    IF b = <<>> THEN <<>>
    ELSE IF Head(b) = CR
         THEN IF Len(b) >= 2 /\ b[2] = LF
              THEN <<LF>> \o ReadText(SubSeq(b, 3, Len(b)))
              ELSE <<LF>> \o ReadText(Tail(b))
         ELSE <<Head(b)>> \o ReadText(Tail(b))

WriteText(s) == Replace(s, <<LF>>, OsLinesep)

\* SHA-256 of the content, taken as collision free.
compute_hash(content) == <<"sha256", content>>

\* (content, hash) of read_file_with_hash; the mtime is never consulted.
read_file_with_hash(bytes) ==
    [content |-> ReadText(bytes), hash |-> compute_hash(ReadText(bytes))]

normalize_newlines(content) ==
    IF Contains(content, <<CR, LF>>)
    THEN [text |-> Replace(content, <<CR, LF>>, <<LF>>), mode |-> "crlf"]
    ELSE [text |-> content, mode |-> "lf"]

restore_newlines(content, mode) ==
    IF mode = "crlf" THEN Replace(content, <<LF>>, <<CR, LF>>) ELSE content

(***************************************************************************)
(* The line-range primitive.                                               *)
(***************************************************************************)
WithNewline(text) == IF EndsWith(text, <<LF>>) THEN text ELSE text \o <<LF>>

apply_patch_to_buffer(content, op) ==
    LET lines == splitlines_keepends(content)
        start_idx == op.start_line - 1
        end_idx == op.end_line
        ins == IF op.text # <<>>
               THEN splitlines_keepends(WithNewline(op.text))
               ELSE <<>>
    IN CASE op.kind = "replace" ->
              Join(SliceTo(lines, start_idx) \o ins \o SliceFrom(lines, end_idx))
         [] op.kind = "insert" ->
              Join(SliceTo(lines, start_idx) \o ins \o SliceFrom(lines, start_idx))
         [] op.kind = "delete" ->
              Join(SliceTo(lines, start_idx) \o SliceFrom(lines, end_idx))

(***************************************************************************)
(* Paths.  A mutation names its file by a path string, relative or         *)
(* absolute; Path(repo_root) / file_path is the file it reaches.  "f1" and *)
(* "./f1" are two spellings of one file; "nofile" reaches nothing.         *)
(***************************************************************************)
DiskFiles == {"f1", "f2"}

\* Path(file_path).parent: both files lie in the repository root.
Parent(path) == IF path \in DiskFiles THEN "repo_root" ELSE None

\* A path that exists and cannot be read as text: a directory.
Dirs == {"d"}

AbsPath(file_path) ==
    CASE file_path \in {"f1", "./f1"} -> "f1"
      [] file_path = "f2" -> "f2"
      [] file_path \in Dirs -> file_path
      [] OTHER -> None

Range(s) == {s[i] : i \in 1..Len(s)}

\* The ascending order, under which an earlier edit shifts the lines of a later one.
AscByStart(a, b) == a.start_line < b.start_line

\* sorted(file_mutations, key=lambda m: m.start_line, reverse=True)
DescByStart(a, b) == a.start_line > b.start_line

\* sorted(file_mutations, key=lambda m: (m.start_line, m.end_line))
AscByRange(a, b) ==
    \/ a.start_line < b.start_line
    \/ a.start_line = b.start_line /\ a.end_line < b.end_line

\* Whether a sorts strictly before b under the named key.
\* candidates.sort(key=lambda n: n.end_line - n.start_line)
AscByWidth(a, b) == a.end_line - a.start_line < b.end_line - b.start_line

\* The ascending order of score, the weakest match first.
AscByScore(a, b) == a.score.num * b.score.den < b.score.num * a.score.den

\* sorted(range(len(scores)), key=lambda i: scores[i], reverse=True)
DescByScore(a, b) == a.score.num * b.score.den > b.score.num * a.score.den

Before(key, a, b) ==
    CASE key = "start_line, reverse" -> DescByStart(a, b)
      [] key = "start_line, end_line" -> AscByRange(a, b)
      [] key = "end_line - start_line" -> AscByWidth(a, b)
      [] key = "score, reverse" -> DescByScore(a, b)

\* sorted(seq, key=...) is stable: x goes before the first element that must follow it.
InsertStable(sorted, x, key) ==
    LET hits == {i \in 1..Len(sorted) : Before(key, x, sorted[i])}
        k == IF hits = {} THEN Len(sorted) + 1
             ELSE CHOOSE i \in hits : \A j \in hits : i <= j
    IN SubSeq(sorted, 1, k - 1) \o <<x>> \o SubSeq(sorted, k, Len(sorted))

StableSort(s, key) ==
    LET f[i \in 0..Len(s)] ==
            IF i = 0 THEN <<>> ELSE InsertStable(f[i - 1], s[i], key)
    IN f[Len(s)]

\* The keys of mutations_by_file, in insertion order.
FileKeys(muts) ==
    LET f[i \in 0..Len(muts)] ==
            IF i = 0 THEN <<>>
            ELSE IF muts[i].file_path \in Range(f[i - 1]) THEN f[i - 1]
                 ELSE Append(f[i - 1], muts[i].file_path)
    IN f[Len(muts)]

\* mutations_by_file[file_path]
FileMutations(muts, file_path) ==
    LET Named(m) == m.file_path = file_path IN SelectSeq(muts, Named)

PatchSetResult(success, message, errors, warnings, diffs, files_modified) ==
    [success |-> success, message |-> message, errors |-> errors,
     warnings |-> warnings, diffs |-> diffs, files_modified |-> files_modified]

(***************************************************************************)
(* PatchSet.validate_all                                                   *)
(***************************************************************************)
\* The checks without the one on start_line > end_line.
MutationErrorUnordered(file_path, i, mut, line_count) ==
    IF mut.operation_kind \notin {"replace", "insert", "delete"}
    THEN <<"Invalid operation_kind", file_path, i>>
    ELSE IF mut.start_line < 1 \/ mut.end_line < 1
    THEN <<"Line numbers must be >= 1", file_path, i>>
    ELSE IF mut.start_line > line_count
    THEN <<"start_line > file size", file_path, i>>
    ELSE IF mut.end_line > line_count /\ mut.operation_kind # "insert"
    THEN <<"end_line > file size", file_path, i>>
    ELSE <<>>

\* The error of mutation i (0-based) of a file with line_count lines, or <<>>.
MutationError(file_path, i, mut, line_count) ==
    IF mut.operation_kind \notin {"replace", "insert", "delete"}
    THEN <<"Invalid operation_kind", file_path, i>>
    ELSE IF mut.start_line < 1 \/ mut.end_line < 1
    THEN <<"Line numbers must be >= 1", file_path, i>>
    ELSE IF mut.start_line > mut.end_line
    THEN <<"start_line > end_line", file_path, i>>
    ELSE IF mut.start_line > line_count
    THEN <<"start_line > file size", file_path, i>>
    ELSE IF mut.end_line > line_count /\ mut.operation_kind # "insert"
    THEN <<"end_line > file size", file_path, i>>
    ELSE <<>>

FileErrors(file_path, fm, fs) ==
    IF AbsPath(file_path) = None THEN << <<"File not found", file_path>> >>
    ELSE IF AbsPath(file_path) \in Dirs THEN << <<"Cannot read", file_path>> >>
    ELSE LET n == LineCount(ReadText(fs[AbsPath(file_path)]))
             f[i \in 0..Len(fm)] ==
                 IF i = 0 THEN <<>>
                 ELSE IF MutationError(file_path, i - 1, fm[i], n) = <<>>
                      THEN f[i - 1]
                      ELSE Append(f[i - 1], MutationError(file_path, i - 1, fm[i], n))
         IN f[Len(fm)]

\* The overlap check with > in the place of >=.
FileWarningsStrict(file_path, fm) ==
    IF AbsPath(file_path) = None \/ AbsPath(file_path) \in Dirs THEN <<>>
    ELSE LET sorted_muts == StableSort(fm, "start_line, end_line")
             f[i \in 0..Len(sorted_muts)] ==
                 IF i <= 1 THEN <<>>
                 ELSE IF sorted_muts[i - 1].end_line > sorted_muts[i].start_line
                      THEN Append(f[i - 1], <<"overlap", file_path, i - 2, i - 1>>)
                      ELSE f[i - 1]
         IN f[Len(sorted_muts)]

\* The overlap check of validate_all for one file.
FileWarnings(file_path, fm) ==
    IF AbsPath(file_path) = None \/ AbsPath(file_path) \in Dirs THEN <<>>
    ELSE LET sorted_muts == StableSort(fm, "start_line, end_line")
             f[i \in 0..Len(sorted_muts)] ==
                 IF i <= 1 THEN <<>>
                 ELSE IF sorted_muts[i - 1].end_line >= sorted_muts[i].start_line
                      THEN Append(f[i - 1], <<"overlap", file_path, i - 2, i - 1>>)
                      ELSE f[i - 1]
         IN f[Len(sorted_muts)]

validate_all(muts, fs) ==
    IF muts = <<>>
    THEN PatchSetResult(FALSE, <<"No mutations to validate">>, << <<"Empty patch set">> >>,
                        <<>>, <<>>, <<>>)
    ELSE LET keys == FileKeys(muts)
             errs[i \in 0..Len(keys)] ==
                 IF i = 0 THEN <<>>
                 ELSE errs[i - 1] \o FileErrors(keys[i], FileMutations(muts, keys[i]), fs)
             warns[i \in 0..Len(keys)] ==
                 IF i = 0 THEN <<>>
                 ELSE warns[i - 1] \o FileWarnings(keys[i], FileMutations(muts, keys[i]))
             errors == errs[Len(keys)]
             warnings == warns[Len(keys)]
         IN IF errors # <<>>
            THEN PatchSetResult(FALSE, <<"Validation failed", Len(errors)>>, errors,
                                warnings, <<>>, <<>>)
            ELSE PatchSetResult(TRUE, <<"Validation passed", Len(muts), Len(keys)>>, <<>>,
                                warnings, <<>>, <<>>)

(***************************************************************************)
(* The per-file computation shared by generate_diffs and apply_atomic:     *)
(* the file's mutations applied in descending start_line order to the      *)
(* normalized text, then the newline mode restored.                        *)
(***************************************************************************)
Operation(mut) ==
    [kind |-> mut.operation_kind, start_line |-> mut.start_line,
     end_line |-> mut.end_line, text |-> mut.text]

ApplySorted(normalized, file_mutations) ==
    LET order == StableSort(file_mutations, "start_line, reverse")
        f[i \in 0..Len(order)] ==
            IF i = 0 THEN normalized
            ELSE apply_patch_to_buffer(f[i - 1], Operation(order[i]))
    IN f[Len(order)]

ModifiedContent(original, file_mutations) ==
    LET nn == normalize_newlines(original)
    IN restore_newlines(ApplySorted(nn.text, file_mutations), nn.mode)

\* A unified diff, kept as what it relates: the header paths and the two
\* line lists difflib compares.
generate_unified_diff(original, modified, file_path) ==
    [fromfile |-> <<"a/", file_path>>, tofile |-> <<"b/", file_path>>,
     a |-> splitlines_keepends(original), b |-> splitlines_keepends(modified)]

(***************************************************************************)
(* PatchSet.generate_diffs                                                 *)
(***************************************************************************)
generate_diffs(muts, fs) ==
    LET validation == validate_all(muts, fs)
        keys == FileKeys(muts)
        Diff(file_path) ==
            LET original == ReadText(fs[AbsPath(file_path)])
                modified == ModifiedContent(original, FileMutations(muts, file_path))
            IN [file_path |-> file_path, modified |-> modified,
                diff |-> generate_unified_diff(original, modified, file_path)]
    IN IF ~validation.success THEN validation
       ELSE PatchSetResult(TRUE, <<"Generated diffs", Len(keys)>>, <<>>, <<>>,
                           [i \in 1..Len(keys) |-> Diff(keys[i])], <<>>)

(***************************************************************************)
(* Inputs.                                                                 *)
(***************************************************************************)
Payload == <<"a", "b", "c", "d">>

Terminator(mode) == IF mode = "crlf" THEN <<CR, LF>> ELSE <<LF>>

\* A file of n lines, every line ended by the terminator of the mode.
FileOf(n, mode) ==
    LET f[i \in 0..n] ==
            IF i = 0 THEN <<>> ELSE f[i - 1] \o <<Payload[i]>> \o Terminator(mode)
    IN f[n]

InitContents == {FileOf(n, mode) : n \in 1..MaxLines, mode \in {"lf", "crlf"}}

\* What another process writes over a file.
ExtContents == {<<"z", LF>>}

Mutation(file_path, operation_kind, start_line, end_line, text) ==
    [file_path |-> file_path, operation_kind |-> operation_kind,
     start_line |-> start_line, end_line |-> end_line, text |-> text]

\* Line ranges: one line, or from a line to the last line any file has.
Ranges == {<<s, e>> \in (1..MaxLines) \X (1..MaxLines) : e = s \/ e = MaxLines}

Mutations ==
    {Mutation(p, "replace", r[1], r[2], <<"X">>) :
        p \in {"f1", "./f1", "f2"}, r \in Ranges}

PatchSets ==
    {<<m>> : m \in Mutations} \cup {<<m1, m2>> : m1 \in Mutations, m2 \in Mutations}

\* LF files of up to MaxLines + 1 lines, the last line with or without its
\* terminator, and the CRLF files.
LineContents ==
    {SubSeq(FileOf(n, "lf"), 1, Len(FileOf(n, "lf")) - cut) :
        n \in 1..(MaxLines + 1), cut \in {0, 1}}
        \cup {FileOf(n, "crlf") : n \in 1..MaxLines}

Texts == {<<>>, <<"X">>, <<"X", LF, "Y", LF>>}

\* The text of the Editor's edit operations.
EdTexts == {<<"X">>}

LineRanges == {r \in (1..(MaxLines + 1)) \X (1..(MaxLines + 1)) : r[1] <= r[2]}

LineMutations ==
    {Mutation("f1", k, r[1], r[2], t) :
        k \in {"replace", "insert", "delete"}, r \in LineRanges, t \in Texts}

LinePatchSets ==
    {<<m>> : m \in LineMutations}
        \cup {<<m1, m2>> : m1 \in LineMutations, m2 \in LineMutations}

\* Mutations as validate_all may meet them: any kind, line numbers from 0 to
\* past the end of the file, a missing file, a directory.
Kinds == {"replace", "insert", "delete", "rename"}

ValidateMutations ==
    {Mutation("f1", k, s, e, <<"X">>) :
        k \in Kinds, s \in 0..(MaxLines + 1), e \in 0..(MaxLines + 1)}
        \cup {Mutation(p, "replace", 1, 1, <<"X">>) : p \in {"nofile", "d"}}

\* Three replacements on one file, for the overlap check.
OverlapMutations == {Mutation("f1", "replace", r[1], r[2], <<"X">>) : r \in LineRanges}

ValidatePatchSets ==
    {<<>>} \cup {<<m>> : m \in ValidateMutations}
        \cup {<<m1, m2>> : m1 \in ValidateMutations, m2 \in ValidateMutations}
        \cup {<<m1, m2, m3>> :
                  m1 \in OverlapMutations, m2 \in OverlapMutations, m3 \in OverlapMutations}

\* git_config=None, and the GitConfig values.
NoGitConfig ==
    [given |-> FALSE, auto_commit |-> FALSE, auto_push |-> FALSE,
     allow_dirty |-> FALSE, dry_run |-> FALSE]

\* GitConfig(auto_commit, auto_push, allow_dirty, dry_run)
GitConfig(auto_commit, auto_push, allow_dirty, dry_run) ==
    [given |-> TRUE, auto_commit |-> auto_commit, auto_push |-> auto_push,
     allow_dirty |-> allow_dirty, dry_run |-> dry_run]

\* No git_config, and the configurations with allow_dirty and dry_run left at
\* their defaults.
GitConfigs ==
    {NoGitConfig} \cup {GitConfig(c, p, FALSE, FALSE) : c \in BOOLEAN, p \in BOOLEAN}

\* Every configuration.
AllGitConfigs ==
    {NoGitConfig} \cup
        {GitConfig(c, p, a, d) : c \in BOOLEAN, p \in BOOLEAN, a \in BOOLEAN, d \in BOOLEAN}

\* The directory repo_root as Git sees it: whether it holds .git, whether
\* "git status --porcelain" is empty before the call, the commits made, and
\* how many of them the remote has.
Repository(is_git_repo, is_clean) ==
    [is_git_repo |-> is_git_repo, is_clean |-> is_clean, commits |-> <<>>, pushed |-> 0]

\* A clean repository, a dirty one, and a directory that is no repository
\* (git status fails there, so is_clean() is False).
Repositories == {Repository(TRUE, TRUE), Repository(TRUE, FALSE), Repository(FALSE, FALSE)}

Procs == {"ps", "ed"}

(***************************************************************************)
(* State.                                                                  *)
(***************************************************************************)
VARIABLES
    disk,            \* the bytes of every file
    bak,             \* Some(the bytes of <file>.bak), or Absent
    tmp,             \* per process: Some(the bytes of its open temp file), or Absent
    orphans,         \* temp files left behind by failed writes
    mutations,       \* PatchSet.mutations
    pc,              \* where apply_atomic stands
    args,            \* the arguments of the apply_atomic call
    file_states,     \* apply_atomic's file_states, in insertion order
    modified_files,  \* apply_atomic's modified_files and newline_modes
    idx,             \* the position of the loop apply_atomic is in
    wa,              \* per process: the write_atomic call it is in
    exc,             \* the exception apply_atomic caught
    rollback_errors, \* apply_atomic's rollback_errors
    result,          \* the PatchSetResult returned
    vcslog,          \* the VCS operations performed
    repo,            \* the repository at repo_root: what Git holds of it
    faults,          \* I/O errors raised so far
    ext,             \* writes by other processes so far
    disk0,           \* the files as they were when apply_atomic was called
    vresult,         \* what the caller's own validate_all call returned
    vdisk,           \* the files as they were at that call
    dresult,         \* what the caller's own generate_diffs call returned
    file_index,      \* the FileIndex the Indexer built
    ed,              \* the Editor object
    edpc,            \* where the Editor's caller stands
    edargs,          \* the arguments of the Editor.write call
    edout,           \* how the last Editor call ended
    edits,           \* edit operations applied so far
    edwrites,        \* Editor.write calls so far
    edcall0,         \* the file system as it was when Editor.write was called
    edop,            \* the last edit call: its arguments and the buffer before it
    resolver,        \* the Resolver object
    selector,        \* the argument of the last Resolver.resolve call
    sresult          \* how that call ended

vars == <<disk, bak, tmp, orphans, mutations, pc, args, file_states, modified_files,
          idx, wa, exc, rollback_errors, result, vcslog, repo, faults, ext, disk0,
          vresult, vdisk, dresult, file_index, ed, edpc, edargs, edout, edits,
          edwrites, edcall0, edop, resolver, selector, sresult>>

edVars == <<file_index, ed, edpc, edargs, edout, edits, edwrites, edcall0, edop>>

rsVars == <<resolver, selector, sresult>>

histVars == <<disk0, vresult, vdisk, dresult, edVars, rsVars>>

psVars == <<mutations, pc, args, file_states, modified_files, idx, exc,
            rollback_errors, result, vcslog, repo, disk0, vresult, vdisk, dresult>>

fsVars == <<disk, bak, tmp, orphans>>

NoArgs == [force |-> FALSE, backup |-> FALSE, git_config |-> NoGitConfig]

NoException == [type |-> "none", detail |-> <<>>]

WaIdle == [stage |-> "idle", path |-> None, content |-> <<>>, mode |-> None, tmp_dir |-> None]

NoResult == PatchSetResult(FALSE, <<>>, <<>>, <<>>, <<>>, <<>>)

NoFileIndex == [path |-> None, content_hash |-> <<>>, nodes |-> {}]

NoEditor ==
    [file_path |-> None, original_content |-> <<>>, content_hash |-> <<>>,
     newline_mode |-> None, normalized_content |-> <<>>, current_content |-> <<>>]

NoSelectorResult == [raised |-> "pending", exact_match |-> Absent, candidates |-> <<>>, error |-> Absent]

NoEdit ==
    [op |-> "none", text |-> <<>>, line |-> Absent, node |-> Absent,
     position |-> None, before |-> <<>>]

\* The state before any call, on the given files, patch sets and repositories.
InitWith(disks, patch_sets, repos) ==
    /\ disk \in disks
    /\ repo \in repos
    /\ bak = [f \in DiskFiles |-> Absent]
    /\ tmp = [p \in Procs |-> Absent]
    /\ orphans = 0
    /\ mutations \in patch_sets
    /\ pc = "idle"
    /\ args = NoArgs
    /\ file_states = <<>>
    /\ modified_files = <<>>
    /\ idx = 0
    /\ wa = [p \in Procs |-> WaIdle]
    /\ exc = NoException
    /\ rollback_errors = <<>>
    /\ result = NoResult
    /\ vcslog = <<>>
    /\ faults = 0
    /\ ext = 0
    /\ disk0 = disk
    /\ vresult = NoResult
    /\ vdisk = disk
    /\ dresult = NoResult
    /\ file_index = NoFileIndex
    /\ ed = NoEditor
    /\ edpc = "unindexed"
    /\ edargs = [force |-> FALSE, backup |-> FALSE]
    /\ edout = "none"
    /\ edits = 0
    /\ edwrites = 0
    /\ edcall0 = [disk |-> disk, bak |-> bak, orphans |-> 0]
    /\ edop = NoEdit
    /\ resolver = Absent
    /\ selector = <<>>
    /\ sresult = NoSelectorResult

\* The same in a clean repository.
InitOn(disks, patch_sets) == InitWith(disks, patch_sets, {Repository(TRUE, TRUE)})

Init ==
    InitOn({d \in [DiskFiles -> InitContents] : LineCount(ReadText(d["f2"])) = 1},
           PatchSets)

(***************************************************************************)
(* write_atomic, one step per file-system operation.                       *)
(***************************************************************************)
\* The call write_atomic(file_path, content, backup, newline_mode) at its first step.
write_atomic(file_path, content, backup, newline_mode) ==
    [stage |-> IF backup /\ file_path \in DiskFiles THEN "backup" ELSE "create",
     path |-> file_path, content |-> content, mode |-> newline_mode, tmp_dir |-> None]

\* What write_atomic puts into the temp file.
Written(w) == WriteText(restore_newlines(w.content, w.mode))

\* shutil.copy2(file_path, bak_path)
WaBackup(p) ==
    /\ wa[p].stage = "backup"
    /\ bak' = [bak EXCEPT ![wa[p].path] = Some(disk[wa[p].path])]
    /\ wa' = [wa EXCEPT ![p].stage = "create"]
    /\ UNCHANGED <<disk, tmp, orphans, faults>>

\* tempfile.NamedTemporaryFile(dir=p.parent, delete=False)
WaCreate(p) ==
    /\ wa[p].stage = "create"
    /\ tmp' = [tmp EXCEPT ![p] = Some(<<>>)]
    /\ wa' = [wa EXCEPT ![p].stage = "write", ![p].tmp_dir = Parent(wa[p].path)]
    /\ UNCHANGED <<disk, bak, orphans, faults>>

\* A write that puts the first part of the content into the target itself.
WaWriteInPlace(p) ==
    /\ wa[p].stage = "write"
    /\ disk' = [disk EXCEPT ![wa[p].path] =
                    SubSeq(Written(wa[p]), 1, Len(Written(wa[p])) \div 2)]
    /\ wa' = [wa EXCEPT ![p].stage = "close"]
    /\ UNCHANGED <<tmp, bak, orphans, faults>>

\* tmp.write(content): the stream hands the first part to the file...
WaWrite(p) ==
    /\ wa[p].stage = "write"
    /\ tmp' = [tmp EXCEPT ![p] = Some(SubSeq(Written(wa[p]), 1, Len(Written(wa[p])) \div 2))]
    /\ wa' = [wa EXCEPT ![p].stage = "close"]
    /\ UNCHANGED <<disk, bak, orphans, faults>>

\* ...and the rest when the with block closes it.
WaClose(p) ==
    /\ wa[p].stage = "close"
    /\ tmp' = [tmp EXCEPT ![p] = Some(Written(wa[p]))]
    /\ wa' = [wa EXCEPT ![p].stage = "replace"]
    /\ UNCHANGED <<disk, bak, orphans, faults>>

\* A rename that leaves an existing target as it is.
WaReplaceKeepsTarget(p) ==
    /\ wa[p].stage = "replace"
    /\ disk' = disk
    /\ tmp' = [tmp EXCEPT ![p] = Absent]
    /\ wa' = [wa EXCEPT ![p].stage = "done"]
    /\ UNCHANGED <<bak, orphans, faults>>

\* os.replace(tmp_path, file_path)
WaReplace(p) ==
    /\ wa[p].stage = "replace"
    /\ disk' = [disk EXCEPT ![wa[p].path] = tmp[p][1]]
    /\ tmp' = [tmp EXCEPT ![p] = Absent]
    /\ wa' = [wa EXCEPT ![p].stage = "done"]
    /\ UNCHANGED <<bak, orphans, faults>>

\* Any of these operations may raise OSError; an open temp file stays behind.
WaRaise(p) ==
    /\ wa[p].stage \in {"backup", "create", "write", "close", "replace"}
    /\ faults < MaxFaults
    /\ faults' = faults + 1
    /\ orphans' = IF tmp[p] # Absent THEN orphans + 1 ELSE orphans
    /\ tmp' = [tmp EXCEPT ![p] = Absent]
    /\ wa' = [wa EXCEPT ![p].stage = "failed"]
    /\ UNCHANGED <<disk, bak>>

(***************************************************************************)
(* PatchSet.apply_atomic                                                   *)
(***************************************************************************)
Keys == FileKeys(mutations)

PathsOf(entries) == [i \in 1..Len(entries) |-> entries[i].path]

\* modified_files and newline_modes, computed from the snapshots.
ComputeModified(states) ==
    [i \in 1..Len(states) |->
        [path |-> states[i].path,
         content |-> ModifiedContent(states[i].content,
                                     FileMutations(mutations, states[i].path)),
         mode |-> normalize_newlines(states[i].content).mode]]

\* The write of one rollback entry: the snapshot, under the mode found in it.
RestoreWrite(st) ==
    write_atomic(AbsPath(st.path), st.content, FALSE, normalize_newlines(st.content).mode)

SuccessResult ==
    PatchSetResult(TRUE, <<"Applied patch", Len(modified_files)>>, <<>>, <<>>, <<>>,
                   PathsOf(modified_files))

\* The result of the two except blocks.
FailureResult(e, errs) ==
    IF e.type = "git"
    THEN PatchSetResult(FALSE, <<"Patch applied but Git operation failed; files rolled back">>,
                        << <<"Git operation failed", e.detail, errs>> >> \o errs,
                        <<>>, <<>>, PathsOf(modified_files))
    ELSE PatchSetResult(FALSE, <<"Patch application failed and rolled back">>,
                        << <<"Patch application failed", e.detail, errs>> >> \o errs,
                        <<>>, <<>>, <<>>)

\* Control enters an except block with exception e: the rollback loop starts.
StartRollback(e) ==
    /\ exc' = e
    /\ rollback_errors' = <<>>
    /\ IF file_states = <<>>
       THEN /\ pc' = "done"
            /\ result' = FailureResult(e, <<>>)
            /\ idx' = 0
            /\ wa' = [wa EXCEPT !["ps"] = WaIdle]
       ELSE /\ pc' = "rollback"
            /\ result' = result
            /\ idx' = 1
            /\ wa' = [wa EXCEPT !["ps"] = RestoreWrite(file_states[1])]

\* The snapshot loop moves to its next file, or the write loop starts.
AfterSnapshot(states) ==
    IF idx < Len(Keys)
    THEN /\ pc' = "snapshot"
         /\ idx' = idx + 1
         /\ UNCHANGED <<modified_files, wa>>
    ELSE /\ pc' = "write"
         /\ idx' = 1
         /\ modified_files' = ComputeModified(states)
         /\ wa' = [wa EXCEPT !["ps"] =
                      write_atomic(AbsPath(ComputeModified(states)[1].path),
                                   ComputeModified(states)[1].content,
                                   args.backup,
                                   ComputeModified(states)[1].mode)]

\* apply_atomic entered without its validation step.
ApplyBeginUnvalidated(force, backup, git_config) ==
    /\ pc = "idle"
    /\ args' = [force |-> force, backup |-> backup, git_config |-> git_config]
    /\ disk0' = disk
    /\ pc' = "snapshot" /\ idx' = 1 /\ result' = result
    /\ UNCHANGED <<vresult, vdisk, dresult, edVars, rsVars>>
    /\ UNCHANGED <<fsVars, mutations, file_states, modified_files, wa, exc,
                   rollback_errors, vcslog, repo, faults, ext>>

\* apply_atomic up to the end of its validation step.
ApplyBegin(force, backup, git_config) ==
    /\ pc = "idle"
    /\ args' = [force |-> force, backup |-> backup, git_config |-> git_config]
    /\ disk0' = disk
    /\ UNCHANGED <<vresult, vdisk, dresult, edVars, rsVars>>
    /\ IF validate_all(mutations, disk).success
       THEN pc' = "snapshot" /\ idx' = 1 /\ result' = result
       ELSE pc' = "done" /\ idx' = idx /\ result' = validate_all(mutations, disk)
    /\ UNCHANGED <<fsVars, mutations, file_states, modified_files, wa, exc,
                   rollback_errors, vcslog, repo, faults, ext>>

\* The caller runs validate_all(repo_root) on its own, before apply_atomic.
ValidateCall ==
    /\ pc = "idle"
    /\ vresult = NoResult
    /\ vresult' = validate_all(mutations, disk)
    /\ vdisk' = disk
    /\ UNCHANGED <<dresult, edVars, rsVars>>
    /\ UNCHANGED <<fsVars, mutations, pc, args, file_states, modified_files, idx, wa,
                   exc, rollback_errors, result, vcslog, repo, faults, ext, disk0>>

\* file_states[file_path] = read_file_with_hash(abs_path)
PsSnapshot ==
    /\ pc = "snapshot"
    /\ LET file_path == Keys[idx]
           r == read_file_with_hash(disk[AbsPath(file_path)])
           states == Append(file_states,
                            [path |-> file_path, content |-> r.content, hash |-> r.hash])
       IN /\ file_states' = states
          /\ IF args.force
             THEN AfterSnapshot(states)
             ELSE pc' = "drift" /\ UNCHANGED <<idx, modified_files, wa>>
    /\ UNCHANGED <<fsVars, mutations, args, exc, rollback_errors, result, vcslog, repo,
                   faults, ext, histVars>>

\* A drift check that never raises.
validate_drift_never(bytes, expected_hash, force) == FALSE

\* validate_drift(file_path, expected_hash, force) reads the file again; TRUE
\* when it raises.
validate_drift(bytes, expected_hash, force) ==
    read_file_with_hash(bytes).hash # expected_hash /\ ~force

PsDrift ==
    /\ pc = "drift"
    /\ LET st == file_states[idx]
       IN IF validate_drift(disk[AbsPath(st.path)], st.hash, args.force)
          THEN /\ StartRollback([type |-> "exception", detail |-> <<"drifted", st.path>>])
               /\ UNCHANGED modified_files
          ELSE /\ AfterSnapshot(file_states)
               /\ UNCHANGED <<exc, rollback_errors, result>>
    /\ UNCHANGED <<fsVars, mutations, args, file_states, vcslog, repo, faults, ext, histVars>>

\* A write loop that hands over to the Git steps after its first file.
PsWrittenCommitsEarly ==
    /\ pc = "write"
    /\ wa["ps"].stage = "done"
    /\ idx' = 0
    /\ wa' = [wa EXCEPT !["ps"] = WaIdle]
    /\ IF args.git_config.given /\ args.git_config.auto_commit
       THEN pc' = "commit" /\ result' = result
       ELSE pc' = "done" /\ result' = SuccessResult
    /\ UNCHANGED <<fsVars, mutations, args, file_states, modified_files, exc,
                   rollback_errors, vcslog, repo, faults, ext, histVars>>

\* write_atomic returned: the write loop moves on, or the writes are over.
PsWritten ==
    /\ pc = "write"
    /\ wa["ps"].stage = "done"
    /\ IF idx < Len(modified_files)
       THEN /\ idx' = idx + 1
            /\ wa' = [wa EXCEPT !["ps"] =
                         write_atomic(AbsPath(modified_files[idx + 1].path),
                                      modified_files[idx + 1].content,
                                      args.backup,
                                      modified_files[idx + 1].mode)]
            /\ UNCHANGED <<pc, result>>
       ELSE /\ idx' = 0
            /\ wa' = [wa EXCEPT !["ps"] = WaIdle]
            /\ IF args.git_config.given /\ args.git_config.auto_commit
               THEN pc' = "commit" /\ result' = result
               ELSE pc' = "done" /\ result' = SuccessResult
    /\ UNCHANGED <<fsVars, mutations, args, file_states, modified_files, exc,
                   rollback_errors, vcslog, repo, faults, ext, histVars>>

\* write_atomic raised inside the write loop.
PsWriteRaised ==
    /\ pc = "write"
    /\ wa["ps"].stage = "failed"
    /\ StartRollback([type |-> "exception", detail |-> <<"OSError", modified_files[idx].path>>])
    /\ UNCHANGED <<fsVars, mutations, args, file_states, modified_files, vcslog, repo,
                   faults, ext, histVars>>

\* What "git add <files>; git commit" records: the files as they are on disk.
Commit(entries) ==
    [i \in 1..Len(entries) |->
        [path |-> AbsPath(entries[i].path), content |-> disk[AbsPath(entries[i].path)]]]

\* GitRepo.stage_and_commit returns: under dry_run without running git,
\* otherwise after git add and git commit succeeded.
stage_and_commit(files) ==
    /\ args.git_config.dry_run \/ repo.is_git_repo
    /\ vcslog' = Append(vcslog, <<"stage_and_commit", PathsOf(files), "returned">>)
    /\ repo' = IF args.git_config.dry_run
               THEN repo
               ELSE [repo EXCEPT !.commits = Append(@, Commit(files))]

\* GitRepo.stage_and_commit raises: git exits with an error (always so outside
\* a repository), which becomes CommitFailed, or git does not end in time.
stage_and_commit_raises(files, e) ==
    /\ ~args.git_config.dry_run
    /\ e \in {"CommitFailed", "TimeoutExpired"}
    /\ vcslog' = Append(vcslog, <<"stage_and_commit", PathsOf(files), e>>)
    /\ repo' = repo

\* GitRepo.get_current_branch, then GitRepo.push_to_remote returns: under
\* dry_run without running git push, otherwise after git push succeeded.
push_to_remote ==
    /\ args.git_config.dry_run \/ repo.is_git_repo
    /\ vcslog' = vcslog \o << <<"get_current_branch">>, <<"push_to_remote", "returned">> >>
    /\ repo' = IF args.git_config.dry_run
               THEN repo
               ELSE [repo EXCEPT !.pushed = Len(repo.commits)]

\* A failing push that takes the commit back.
push_to_remote_raises_and_resets(e) ==
    /\ ~args.git_config.dry_run
    /\ e \in {"PushFailed", "TimeoutExpired"}
    /\ vcslog' = vcslog \o << <<"get_current_branch">>, <<"push_to_remote", e>> >>
    /\ repo' = [repo EXCEPT !.commits = SubSeq(@, 1, Len(@) - 1)]

\* GitRepo.push_to_remote raises PushFailed, or git does not end in time.
push_to_remote_raises(e) ==
    /\ ~args.git_config.dry_run
    /\ e \in {"PushFailed", "TimeoutExpired"}
    /\ vcslog' = vcslog \o << <<"get_current_branch">>, <<"push_to_remote", e>> >>
    /\ repo' = repo

\* The except block an exception of the Git steps reaches.
GitException(e) ==
    [type |-> IF e \in {"CommitFailed", "PushFailed"} THEN "git" ELSE "exception",
     detail |-> <<e>>]

\* git_repo.stage_and_commit(modified_abs_paths, commit_message)
PsCommit ==
    /\ pc = "commit"
    /\ stage_and_commit(modified_files)
    /\ IF args.git_config.auto_push
       THEN pc' = "push" /\ result' = result
       ELSE pc' = "done" /\ result' = SuccessResult
    /\ UNCHANGED <<fsVars, mutations, args, file_states, modified_files, idx, wa, exc,
                   rollback_errors, faults, ext, histVars>>

\* stage_and_commit raised CommitFailed.
PsCommitFailed ==
    /\ pc = "commit"
    /\ stage_and_commit_raises(modified_files, "CommitFailed")
    /\ StartRollback(GitException("CommitFailed"))
    /\ UNCHANGED <<fsVars, mutations, args, file_states, modified_files,
                   faults, ext, histVars>>

\* stage_and_commit raised an exception the inner except clause does not name.
PsCommitRaised ==
    /\ pc = "commit"
    /\ stage_and_commit_raises(modified_files, "TimeoutExpired")
    /\ StartRollback(GitException("TimeoutExpired"))
    /\ UNCHANGED <<fsVars, mutations, args, file_states, modified_files,
                   faults, ext, histVars>>

\* git_repo.push_to_remote(branch=current_branch)
PsPush ==
    /\ pc = "push"
    /\ push_to_remote
    /\ pc' = "done"
    /\ result' = SuccessResult
    /\ UNCHANGED <<fsVars, mutations, args, file_states, modified_files, idx, wa, exc,
                   rollback_errors, faults, ext, histVars>>

\* push_to_remote raised PushFailed.
PsPushFailed ==
    /\ pc = "push"
    /\ push_to_remote_raises("PushFailed")
    /\ StartRollback(GitException("PushFailed"))
    /\ UNCHANGED <<fsVars, mutations, args, file_states, modified_files,
                   faults, ext, histVars>>

\* push_to_remote raised an exception the inner except clause does not name.
PsPushRaised ==
    /\ pc = "push"
    /\ push_to_remote_raises("TimeoutExpired")
    /\ StartRollback(GitException("TimeoutExpired"))
    /\ UNCHANGED <<fsVars, mutations, args, file_states, modified_files,
                   faults, ext, histVars>>

\* The rollback loop moves to its next entry, or apply_atomic returns the failure.
RollbackNext(errs) ==
    /\ rollback_errors' = errs
    /\ IF idx < Len(file_states)
       THEN /\ idx' = idx + 1
            /\ wa' = [wa EXCEPT !["ps"] = RestoreWrite(file_states[idx + 1])]
            /\ UNCHANGED <<pc, result>>
       ELSE /\ idx' = 0
            /\ wa' = [wa EXCEPT !["ps"] = WaIdle]
            /\ pc' = "done"
            /\ result' = FailureResult(exc, errs)

PsRestored ==
    /\ pc = "rollback"
    /\ wa["ps"].stage = "done"
    /\ RollbackNext(rollback_errors)
    /\ UNCHANGED <<fsVars, mutations, args, file_states, modified_files, exc, vcslog, repo,
                   faults, ext, histVars>>

\* A rollback loop that ends at the first restore that raises.
PsRestoreRaisedEndsLoop ==
    /\ pc = "rollback"
    /\ wa["ps"].stage = "failed"
    /\ rollback_errors' = Append(rollback_errors, <<"Rollback", file_states[idx].path>>)
    /\ idx' = 0
    /\ wa' = [wa EXCEPT !["ps"] = WaIdle]
    /\ pc' = "done"
    /\ result' = FailureResult(exc, rollback_errors')
    /\ UNCHANGED <<fsVars, mutations, args, file_states, modified_files, exc, vcslog, repo,
                   faults, ext, histVars>>

\* write_atomic raised inside the rollback loop: the error is kept, the loop goes on.
PsRestoreRaised ==
    /\ pc = "rollback"
    /\ wa["ps"].stage = "failed"
    /\ RollbackNext(Append(rollback_errors, <<"Rollback", file_states[idx].path>>))
    /\ UNCHANGED <<fsVars, mutations, args, file_states, modified_files, exc, vcslog, repo,
                   faults, ext, histVars>>

\* A generate_diffs that leaves a backup of the first file behind.
GenerateDiffsCallWithBackup ==
    /\ pc = "idle"
    /\ dresult = NoResult
    /\ dresult' = generate_diffs(mutations, disk)
    /\ bak' = [bak EXCEPT !["f1"] = Some(disk["f1"])]
    /\ UNCHANGED <<disk, tmp, orphans, mutations, pc, args, file_states,
                   modified_files, idx, wa, exc, rollback_errors, result, vcslog, repo,
                   faults, ext, disk0, vresult, vdisk, edVars, rsVars>>

\* The caller's own generate_diffs call, before apply_atomic.
GenerateDiffsCall ==
    /\ pc = "idle"
    /\ dresult = NoResult
    /\ dresult' = generate_diffs(mutations, disk)
    /\ UNCHANGED <<fsVars, mutations, pc, args, file_states, modified_files, idx, wa,
                   exc, rollback_errors, result, vcslog, repo, faults, ext, disk0, vresult,
                   vdisk, edVars, rsVars>>

\* A step of the write_atomic call apply_atomic is in.
PsWriteAtomic ==
    /\ \/ WaBackup("ps")
       \/ WaCreate("ps")
       \/ WaWrite("ps")
       \/ WaClose("ps")
       \/ WaReplace("ps")
    /\ UNCHANGED <<mutations, pc, args, file_states, modified_files, idx, exc,
                   rollback_errors, result, vcslog, repo, ext, histVars>>

PsWriteAtomicRaises ==
    /\ WaRaise("ps")
    /\ UNCHANGED <<mutations, pc, args, file_states, modified_files, idx, exc,
                   rollback_errors, result, vcslog, repo, ext, histVars>>

(***************************************************************************)
(* Another process replaces the content of a file.                         *)
(***************************************************************************)
ExternalWrite(f, content) ==
    /\ pc # "done"
    /\ ext < MaxExtWrites
    /\ content # disk[f]
    /\ disk' = [disk EXCEPT ![f] = content]
    /\ ext' = ext + 1
    /\ UNCHANGED <<bak, tmp, orphans, mutations, pc, args, file_states, modified_files,
                   idx, wa, exc, rollback_errors, result, vcslog, repo, faults, histVars>>

(***************************************************************************)
(* Indexer.index_file and the Editor.                                      *)
(***************************************************************************)
\* models.Node; parent_id is Absent or Some(id).
Node(id, kind, name, path, start_line, end_line, parent_id) ==
    [id |-> id, kind |-> kind, name |-> name, path |-> path,
     start_line |-> start_line, end_line |-> end_line, parent_id |-> parent_id]

\* The nodes a parser may find in a file of the given number of lines.
Nodes(path, line_count) ==
    {Node(<<path, r[1]>>, "unit", <<>>, path, r[1], r[2], Absent) :
        r \in {x \in (1..line_count) \X (1..line_count) : x[1] <= x[2]}}

FileIndex(path, content_hash, nodes) ==
    [path |-> path, content_hash |-> content_hash, nodes |-> nodes]

index_file(file_path) ==
    LET r == read_file_with_hash(disk[file_path])
    IN FileIndex(file_path, r.hash, Nodes(file_path, LineCount(r.content)))

\* Editor.__init__
Editor(fi) ==
    LET r == read_file_with_hash(disk[fi.path])
        n == normalize_newlines(r.content)
    IN [file_path |-> fi.path, original_content |-> r.content,
        content_hash |-> r.hash, newline_mode |-> n.mode,
        normalized_content |-> n.text, current_content |-> n.text]

EdUnchanged == UNCHANGED <<psVars, fsVars, wa, faults, ext, rsVars>>

IndexFile(file_path) ==
    /\ edpc = "unindexed"
    /\ file_index' = index_file(file_path)
    /\ edpc' = "indexed"
    /\ UNCHANGED <<ed, edargs, edout, edits, edwrites, edcall0, edop>>
    /\ EdUnchanged

EditorNew ==
    /\ edpc = "indexed"
    /\ ed' = Editor(file_index)
    /\ edpc' = "ready"
    /\ UNCHANGED <<file_index, edargs, edout, edits, edwrites, edcall0, edop>>
    /\ EdUnchanged

\* An edit operation that reaches apply_patch_to_buffer.
EdApply(kind, start_line, end_line, text) ==
    /\ edpc = "ready"
    /\ edits < MaxEdits
    /\ edits' = edits + 1
    /\ ed' = [ed EXCEPT !.current_content =
                  apply_patch_to_buffer(ed.current_content,
                      [kind |-> kind, start_line |-> start_line,
                       end_line |-> end_line, text |-> text])]
    /\ edout' = "edited"
    /\ UNCHANGED <<file_index, edpc, edargs, edwrites, edcall0>>
    /\ EdUnchanged

\* An edit operation that raises ValueError before it changes anything.
EdValueError ==
    /\ edpc = "ready"
    /\ edits < MaxEdits
    /\ edits' = edits + 1
    /\ edout' = "ValueError"
    /\ UNCHANGED <<file_index, ed, edpc, edargs, edwrites, edcall0>>
    /\ EdUnchanged

\* The record of an edit call.
EditCall(op, text, line, node, position) ==
    [op |-> op, text |-> text, line |-> line, node |-> node, position |-> position,
     before |-> ed.current_content]

\* Editor.replace without its check of the node's file.
EdReplaceUnchecked(node, text) ==
    /\ edop' = EditCall("replace", text, Absent, Some(node), None)
    /\ EdApply("replace", node.start_line, node.end_line, text)

EdReplace(node, text) ==
    /\ edop' = EditCall("replace", text, Absent, Some(node), None)
    /\ IF node.path # ed.file_path
       THEN EdValueError
       ELSE EdApply("replace", node.start_line, node.end_line, text)

EdInsertLine(text, line) ==
    /\ edop' = EditCall("insert", text, Some(line), Absent, "after")
    /\ EdApply("insert", line, line, text)

\* insert_line of Editor.insert for a node and a known position
InsertLine(node, position) ==
    CASE position = "before" -> node.start_line
      [] position = "after" -> node.end_line + 1
      [] position = "inside-start" -> node.start_line + 1
      [] position = "inside-end" -> node.end_line

\* Editor.insert(text, line, node, position); line and node are Absent or Some
EdInsert(text, line, node, position) ==
    /\ edop' = EditCall("insert", text, line, node, position)
    /\ IF line # Absent THEN EdApply("insert", line[1], line[1], text)
       ELSE IF node = Absent THEN EdValueError
       ELSE IF node[1].path # ed.file_path THEN EdValueError
       ELSE IF position \notin {"before", "after", "inside-start", "inside-end"}
            THEN EdValueError
       ELSE EdApply("insert", InsertLine(node[1], position),
                    InsertLine(node[1], position), text)

EdDelete(node) ==
    /\ edop' = EditCall("delete", <<>>, Absent, Some(node), None)
    /\ IF node.path # ed.file_path
       THEN EdValueError
       ELSE EdApply("delete", node.start_line, node.end_line, <<>>)

\* Editor.write up to the call of write_atomic: validate_drift reads the file.
EdWriteWithin(limit, force, backup) ==
    /\ edpc = "ready"
    /\ edwrites < limit
    /\ edwrites' = edwrites + 1
    /\ edargs' = [force |-> force, backup |-> backup]
    /\ edcall0' = [disk |-> disk, bak |-> bak, orphans |-> orphans]
    /\ IF validate_drift(disk[ed.file_path], ed.content_hash, force)
       THEN /\ edout' = "Drift"
            /\ UNCHANGED <<edpc, wa>>
       ELSE /\ edpc' = "write"
            /\ edout' = "writing"
            /\ wa' = [wa EXCEPT !["ed"] =
                         write_atomic(ed.file_path, ed.current_content, backup,
                                      ed.newline_mode)]
    /\ UNCHANGED <<file_index, ed, edits, edop>>
    /\ UNCHANGED <<psVars, fsVars, faults, ext, rsVars>>

EdWrite(force, backup) == EdWriteWithin(MaxWrites, force, backup)

\* A step of the write_atomic call Editor.write is in.
EdWriteAtomic ==
    /\ \/ WaBackup("ed")
       \/ WaCreate("ed")
       \/ WaWrite("ed")
       \/ WaClose("ed")
       \/ WaReplace("ed")
    /\ UNCHANGED <<psVars, ext, edVars, rsVars>>

EdWriteAtomicRaises ==
    /\ WaRaise("ed")
    /\ UNCHANGED <<psVars, ext, edVars, rsVars>>

\* An Editor.write that takes the hash of what it wrote as its new baseline.
EdWrittenRefreshes ==
    /\ edpc = "write"
    /\ wa["ed"].stage = "done"
    /\ edpc' = "ready"
    /\ edout' = "written"
    /\ ed' = [ed EXCEPT !.content_hash = read_file_with_hash(disk[ed.file_path]).hash]
    /\ wa' = [wa EXCEPT !["ed"] = WaIdle]
    /\ UNCHANGED <<file_index, edargs, edits, edwrites, edcall0, edop>>
    /\ UNCHANGED <<psVars, fsVars, faults, ext, rsVars>>

\* write_atomic returned, and Editor.write with it.
EdWritten ==
    /\ edpc = "write"
    /\ wa["ed"].stage = "done"
    /\ edpc' = "ready"
    /\ edout' = "written"
    /\ wa' = [wa EXCEPT !["ed"] = WaIdle]
    /\ UNCHANGED <<file_index, ed, edargs, edits, edwrites, edcall0, edop>>
    /\ UNCHANGED <<psVars, fsVars, faults, ext, rsVars>>

\* write_atomic raised, and Editor.write passes the exception on.
EdWriteRaised ==
    /\ edpc = "write"
    /\ wa["ed"].stage = "failed"
    /\ edpc' = "ready"
    /\ edout' = "OSError"
    /\ wa' = [wa EXCEPT !["ed"] = WaIdle]
    /\ UNCHANGED <<file_index, ed, edargs, edits, edwrites, edcall0, edop>>
    /\ UNCHANGED <<psVars, fsVars, faults, ext, rsVars>>

(***************************************************************************)
(* selectors.py: LineNumberSelector and the Resolver.  A string (selector, *)
(* path, kind, name, id) is a sequence of one-letter strings; a dict is    *)
(* the sequence of its items in insertion order.                           *)
(***************************************************************************)
Digits == <<"0", "1", "2", "3", "4", "5", "6", "7", "8", "9">>

\* str.count(c)
Count(s, c) == Cardinality({i \in 1..Len(s) : s[i] = c})

\* str.isdigit()
isdigit(s) == s # <<>> /\ \A i \in 1..Len(s) : \E d \in 1..Len(Digits) : Digits[d] = s[i]

\* int(s) of a string of digits
RECURSIVE int(_)
int(s) ==
    IF s = <<>> THEN 0
    ELSE 10 * int(SubSeq(s, 1, Len(s) - 1))
             + (CHOOSE d \in 1..Len(Digits) : Digits[d] = s[Len(s)]) - 1

\* str.find(c), 1-based; the string contains c
Find(s, c) == CHOOSE i \in 1..Len(s) : s[i] = c /\ \A j \in 1..(i - 1) : s[j] # c

\* str.split(c, maxsplit); maxsplit = -1 splits at every c
RECURSIVE split(_, _, _)
split(s, c, maxsplit) ==
    IF maxsplit = 0 \/ Count(s, c) = 0 THEN <<s>>
    ELSE <<SubSeq(s, 1, Find(s, c) - 1)>>
             \o split(SubSeq(s, Find(s, c) + 1, Len(s)), c, maxsplit - 1)

Has(d, k) == \E i \in 1..Len(d) : d[i].key = k

Get(d, k) == d[CHOOSE i \in 1..Len(d) : d[i].key = k].value

\* d[k] = v: a new key goes last, a known key keeps its place
Put(d, k, v) ==
    IF Has(d, k)
    THEN [i \in 1..Len(d) |-> IF d[i].key = k THEN [key |-> k, value |-> v] ELSE d[i]]
    ELSE Append(d, [key |-> k, value |-> v])

\* d.get(k, [])
GetList(d, k) == IF Has(d, k) THEN Get(d, k) ELSE <<>>

\* models.SelectorResult as resolve returns it; raised is "none"
SelectorResult(exact_match, candidates, error) ==
    [raised |-> "none", exact_match |-> exact_match, candidates |-> candidates,
     error |-> error]

\* a call that ends in an exception returns nothing
Raise(type) ==
    [raised |-> type, exact_match |-> Absent, candidates |-> <<>>, error |-> Absent]

is_resolved(r) == r.exact_match # Absent

\* LineNumberSelector.parse: Absent, or Some(the selector)
LineNumberSelector_parse(sel) ==
    IF Count(sel, ":") # 1 THEN Absent
    ELSE LET file_path == SubSeq(sel, 1, Find(sel, ":") - 1)
             line_spec == SubSeq(sel, Find(sel, ":") + 1, Len(sel))
             parts == split(line_spec, "-", 1)
         IN IF Count(line_spec, "-") > 0
            THEN IF ~(isdigit(parts[1]) /\ isdigit(parts[2])) THEN Absent
                 ELSE IF int(parts[1]) <= 0 \/ int(parts[2]) <= 0 THEN Absent
                 ELSE Some([file_path |-> file_path, start_line |-> int(parts[1]),
                            end_line |-> int(parts[2])])
            ELSE IF ~isdigit(line_spec) THEN Absent
                 ELSE IF int(line_spec) <= 0 THEN Absent
                 ELSE Some([file_path |-> file_path, start_line |-> int(line_spec),
                            end_line |-> int(line_spec)])

\* every node of every file index, in index order
IndexedNodes(indices) == Join([i \in 1..Len(indices) |-> indices[i].value.nodes])

\* Resolver.__init__ with _build_lookup
Resolver(indices) ==
    LET nodes == IndexedNodes(indices)
        by_id[i \in 0..Len(nodes)] ==
            IF i = 0 THEN <<>> ELSE Put(by_id[i - 1], nodes[i].id, nodes[i])
        by_kind[i \in 0..Len(nodes)] ==
            IF i = 0 THEN <<>>
            ELSE Put(by_kind[i - 1], nodes[i].kind,
                     Append(GetList(by_kind[i - 1], nodes[i].kind), nodes[i]))
        by_path[i \in 0..Len(nodes)] ==
            IF i = 0 THEN <<>>
            ELSE Put(by_path[i - 1], nodes[i].path,
                     Append(GetList(by_path[i - 1], nodes[i].path), nodes[i]))
    IN [indices |-> indices, nodes_by_id |-> by_id[Len(nodes)],
        nodes_by_kind |-> by_kind[Len(nodes)], nodes_by_path |-> by_path[Len(nodes)]]

\* The working directory and the home directory, as path components.
Cwd == <<<<"w">>>>
Home == <<<<"r">>>>

\* The components of a path string that Path() keeps.
PathParts(path) ==
    LET parts == split(path, "/", -1)
        keep[i \in 0..Len(parts)] ==
            IF i = 0 THEN <<>>
            ELSE IF parts[i] \in {<<>>, <<".">>} THEN keep[i - 1]
            ELSE Append(keep[i - 1], parts[i])
    IN keep[Len(parts)]

\* Resolver._normalize_path: str(Path(path).expanduser().resolve()), as the
\* components of the absolute path.  No other user has a home directory, so
\* "~name" makes expanduser raise RuntimeError.  The paths of the model hold
\* no ".." and no symbolic link.
normalize_path(path) ==
    LET parts == PathParts(path)
        absolute == path # <<>> /\ path[1] = "/"
    IN IF absolute THEN [raised |-> "none", value |-> parts]
       ELSE IF parts # <<>> /\ parts[1][1] = "~"
            THEN IF parts[1] = <<"~">>
                 THEN [raised |-> "none", value |-> Home \o Tail(parts)]
                 ELSE [raised |-> "RuntimeError", value |-> <<>>]
            ELSE [raised |-> "none", value |-> Cwd \o parts]

\* The names from the node's outermost known ancestor down to the node.
RECURSIVE NamePath(_, _)
NamePath(r, node) ==
    IF node.parent_id # Absent /\ Has(r.nodes_by_id, node.parent_id[1])
    THEN NamePath(r, Get(r.nodes_by_id, node.parent_id[1])) \o <<node.name>>
    ELSE <<node.name>>

\* Resolver._matches_nested_path
matches_nested_path(r, node, name_parts) ==
    SliceFrom(NamePath(r, node), -Len(name_parts)) = name_parts

\* the test both loops of _resolve_by_path_kind_name apply to a node
KindNameMatch(r, node, kind, name) ==
    LET name_parts == split(name, "/", -1)
    IN /\ node.kind = kind
       /\ IF Len(name_parts) > 1 THEN matches_nested_path(r, node, name_parts)
          ELSE node.name = name

\* the test that overlap with the range would be
Overlapping(node, start_line, end_line) ==
    node.start_line <= end_line /\ node.end_line >= start_line

\* the test both loops of _resolve_by_line_numbers apply to a node
Contained(node, start_line, end_line) ==
    node.start_line >= start_line /\ node.end_line <= end_line

\* A query: what a strategy looks for in the nodes of a path.
Matches(r, node, q) ==
    IF q.by = "lines" THEN Contained(node, q.start_line, q.end_line)
    ELSE KindNameMatch(r, node, q.kind, q.name)

Select(r, nodes, q) ==
    LET f[i \in 0..Len(nodes)] ==
            IF i = 0 THEN <<>>
            ELSE IF Matches(r, nodes[i], q) THEN Append(f[i - 1], nodes[i])
            ELSE f[i - 1]
    IN f[Len(nodes)]

\* some indexed path cannot be normalized
IndexedPathRaises(r) ==
    \E i \in 1..Len(r.nodes_by_path) : normalize_path(r.nodes_by_path[i].key).raised # "none"

\* the second loop of both strategies: the nodes of every indexed path that
\* normalizes to the same path as the one given
NormalizedSelect(r, path, q) ==
    LET normalized_path == normalize_path(path).value
        items == r.nodes_by_path
    IN Join([i \in 1..Len(items) |->
                IF normalize_path(items[i].key).value = normalized_path
                THEN Select(r, items[i].value, q) ELSE <<>>])

\* the candidates of both strategies: [raised, candidates]
Candidates(r, path, q) ==
    LET literal == Select(r, GetList(r.nodes_by_path, path), q)
    IN IF literal # <<>> THEN [raised |-> "none", candidates |-> literal]
       ELSE IF normalize_path(path).raised # "none"
            THEN [raised |-> normalize_path(path).raised, candidates |-> <<>>]
       ELSE IF r.nodes_by_path # <<>> /\ IndexedPathRaises(r)
            THEN [raised |-> "RuntimeError", candidates |-> <<>>]
       ELSE [raised |-> "none", candidates |-> NormalizedSelect(r, path, q)]

\* Resolver._resolve_by_path_kind_name
resolve_by_path_kind_name(r, path, kind, name) ==
    LET c == Candidates(r, path, [by |-> "kind, name", kind |-> kind, name |-> name])
    IN IF c.raised # "none" THEN Raise(c.raised)
       ELSE IF Len(c.candidates) = 1
            THEN SelectorResult(Some(c.candidates[1]), <<>>, Absent)
       ELSE IF c.candidates # <<>>
            THEN SelectorResult(Absent, c.candidates, Absent)
       ELSE SelectorResult(Absent, <<>>, Some(<<"No node found", path, kind, name>>))

\* available_nodes of _resolve_by_line_numbers
AvailableNodes(r, file_path) ==
    LET items == r.nodes_by_path
        same == {i \in 1..Len(items) :
                    normalize_path(items[i].key).value = normalize_path(file_path).value}
    IN IF GetList(items, file_path) # <<>> THEN GetList(items, file_path)
       ELSE IF same = {} THEN <<>>
       ELSE items[CHOOSE i \in same : \A j \in same : i <= j].value

\* "name (start-end)" of the first three nodes
Available(nodes) ==
    [i \in 1..Min(3, Len(nodes)) |->
        <<nodes[i].name, nodes[i].start_line, nodes[i].end_line>>]

\* Resolver._resolve_by_line_numbers
resolve_by_line_numbers(r, file_path, start_line, end_line) ==
    LET c == Candidates(r, file_path, [by |-> "lines", start_line |-> start_line,
                                       end_line |-> end_line])
        available_nodes == AvailableNodes(r, file_path)
    IN IF c.raised # "none" THEN Raise(c.raised)
       ELSE IF Len(c.candidates) = 1
            THEN SelectorResult(Some(c.candidates[1]), <<>>, Absent)
       ELSE IF c.candidates # <<>>
            THEN SelectorResult(Absent, StableSort(c.candidates, "end_line - start_line"),
                                Absent)
       ELSE IF available_nodes # <<>>
            THEN SelectorResult(Absent, <<>>,
                     Some(<<"No node found in", file_path, start_line, end_line,
                            "Available", Available(available_nodes)>>))
       ELSE SelectorResult(Absent, <<>>, Some(<<"File not indexed", file_path>>))

\* The longest block that a and b share: the longest, then the earliest in a,
\* then the earliest in b (SequenceMatcher.find_longest_match, no junk).
Blocks(a, b) ==
    {x \in (1..Len(a)) \X (1..Len(b)) \X (1..Min(Len(a), Len(b))) :
        /\ x[1] + x[3] - 1 <= Len(a)
        /\ x[2] + x[3] - 1 <= Len(b)
        /\ SubSeq(a, x[1], x[1] + x[3] - 1) = SubSeq(b, x[2], x[2] + x[3] - 1)}

LongestBlock(a, b) ==
    CHOOSE x \in Blocks(a, b) :
        \A y \in Blocks(a, b) :
            \/ x[3] > y[3]
            \/ x[3] = y[3] /\ x[1] < y[1]
            \/ x[3] = y[3] /\ x[1] = y[1] /\ x[2] <= y[2]

\* The number of characters in the matching blocks of a and b.
RECURSIVE MatchCount(_, _)
MatchCount(a, b) ==
    IF Blocks(a, b) = {} THEN 0
    ELSE LET x == LongestBlock(a, b)
         IN x[3] + MatchCount(SubSeq(a, 1, x[1] - 1), SubSeq(b, 1, x[2] - 1))
                 + MatchCount(SubSeq(a, x[1] + x[3], Len(a)),
                              SubSeq(b, x[2] + x[3], Len(b)))

\* SequenceMatcher(None, a, b).ratio() as the fraction num / den
Ratio(a, b) ==
    IF Len(a) + Len(b) = 0 THEN [num |-> 1, den |-> 1]
    ELSE [num |-> 2 * MatchCount(a, b), den |-> Len(a) + Len(b)]

\* the score _resolve_fuzzy gives a node
Score(node, name) ==
    IF node.name = name THEN [num |-> 1, den |-> 1] ELSE Ratio(node.name, name)

\* ratio > 0.6
Survives(score) == 5 * score.num > 3 * score.den

\* Resolver._resolve_fuzzy
resolve_fuzzy(r, name) ==
    LET items == r.nodes_by_id
        scored[i \in 0..Len(items)] ==
            IF i = 0 THEN <<>>
            ELSE IF Survives(Score(items[i].value, name))
                 THEN Append(scored[i - 1],
                             [node |-> items[i].value, score |-> Score(items[i].value, name)])
            ELSE scored[i - 1]
        sorted == StableSort(scored[Len(items)], "score, reverse")
        candidates == [i \in 1..Len(sorted) |-> sorted[i].node]
    IN IF Len(candidates) = 1 THEN SelectorResult(Some(candidates[1]), <<>>, Absent)
       ELSE IF candidates # <<>>
            THEN SelectorResult(Absent, SubSeq(candidates, 1, Min(10, Len(candidates))),
                                Absent)
       ELSE SelectorResult(Absent, <<>>, Some(<<"No node found matching", name>>))

Decisive(res) == res.raised # "none" \/ is_resolved(res) \/ res.candidates # <<>>

\* resolve from the path:kind:name strategy on
resolve_structural(r, sel) ==
    LET parts == split(sel, ":", 2)
        res == resolve_by_path_kind_name(r, parts[1], parts[2], parts[3])
    IN IF Count(sel, ":") >= 2 /\ Decisive(res) THEN res
       ELSE resolve_fuzzy(r, sel)

\* Resolver.resolve
resolve(r, sel) ==
    LET line_sel == LineNumberSelector_parse(sel)
        res == resolve_by_line_numbers(r, line_sel[1].file_path, line_sel[1].start_line,
                                       line_sel[1].end_line)
    IN IF Has(r.nodes_by_id, sel)
       THEN SelectorResult(Some(Get(r.nodes_by_id, sel)), <<>>, Absent)
       ELSE IF line_sel # Absent /\ Decisive(res) THEN res
       ELSE resolve_structural(r, sel)

(***************************************************************************)
(* The indices and selectors the Resolver is run on.  Kinds and names are  *)
(* one letter long: "f" stands for py_function, "h" for md_heading.  The   *)
(* paths "a" and "./a" name one file, "b" another; "c" is not indexed and  *)
(* "~x" is the home directory of a user that does not exist.               *)
(***************************************************************************)
PathA == <<"a">>
PathDotA == <<".", "/", "a">>
PathB == <<"b">>
PathC == <<"c">>
PathD == <<"d">>
PathTilde == <<"~", "x">>

NodeKinds == {<<"f">>, <<"h">>}

\* file a: a function m with a nested function n, a second function m, a heading m
NodesOfA ==
    {Node(<<"e", "1">>, <<"f">>, <<"m">>, PathA, 1, 3, Absent),
     Node(<<"e", "2">>, <<"f">>, <<"m">>, PathA, 2, 3, Absent),
     Node(<<"e", "3">>, <<"f">>, <<"n">>, PathA, 2, 2, Some(<<"e", "1">>)),
     Node(<<"e", "4">>, <<"h">>, <<"m">>, PathA, 3, 3, Absent)}

\* the same file indexed under its other spelling
NodesOfDotA == {Node(<<"e", "5">>, <<"f">>, <<"m">>, PathDotA, 1, 1, Absent)}

\* file b: a heading whose text is "a:f:n", a function m and a function mn
NodesOfB ==
    {Node(<<"e", "6">>, <<"h">>, <<"a", ":", "f", ":", "n">>, PathB, 1, 1, Absent),
     Node(<<"e", "7">>, <<"f">>, <<"m">>, PathB, 1, 2, Absent),
     Node(<<"e", "8">>, <<"f">>, <<"m", "n">>, PathB, 2, 2, Absent)}

\* file d: a function mn followed by many functions m, one per line
NodesOfD ==
    [i \in 1..MaxMany |->
        Node(IF i < 10 THEN <<"d", Digits[i + 1]>> ELSE <<"d", "1", Digits[i - 9]>>,
             <<"f">>, IF i = 1 THEN <<"m", "n">> ELSE <<"m">>, PathD, i, i, Absent)]

\* the sequences of at most n distinct elements of S
SeqsUpTo(S, n) ==
    {s \in UNION {[1..k -> S] : k \in 0..n} :
        \A i \in 1..Len(s), j \in 1..Len(s) : i # j => s[i] # s[j]}

\* one entry of the path -> FileIndex dict
IndexItem(path, nodes) == [key |-> path, value |-> FileIndex(path, <<>>, nodes)]

Indices ==
    {<<IndexItem(PathA, na), IndexItem(PathDotA, nd), IndexItem(PathB, nb)>> :
        na \in SeqsUpTo(NodesOfA, MaxNodes),
        nd \in SeqsUpTo(NodesOfDotA, 1),
        nb \in SeqsUpTo(NodesOfB, 2)}
        \cup {<<IndexItem(PathD, NodesOfD)>>}

SelectorPaths == {PathA, PathDotA, PathB, PathC, PathTilde}

LineSpecs ==
    {<<"2">>, <<"1", "-", "3">>, <<"2", "-", "3">>, <<"3", "-", "1">>, <<"0">>,
     <<"1", "-">>}

SelectorNames == {<<"m">>, <<"n">>, <<"m", "/", "n">>}

Selectors ==
    {n.id : n \in NodesOfA \cup NodesOfDotA \cup NodesOfB}
        \cup {<<"e", "9">>, <<>>, <<":">>, <<"m", "n">>}
        \cup SelectorNames
        \cup {p \o <<":">> \o l : p \in SelectorPaths, l \in LineSpecs}
        \cup {p \o <<":">> \o k \o <<":">> \o n :
                 p \in SelectorPaths, k \in NodeKinds, n \in SelectorNames}

(***************************************************************************)
(* The Resolver's caller: build a Resolver, resolve a selector.            *)
(***************************************************************************)
RsUnchanged == UNCHANGED <<psVars, fsVars, wa, faults, ext, edVars>>

ResolverNew ==
    /\ resolver = Absent
    /\ \E indices \in Indices : resolver' = Some(Resolver(indices))
    /\ UNCHANGED <<selector, sresult>>
    /\ RsUnchanged

ResolveCall ==
    /\ resolver # Absent
    /\ sresult = NoSelectorResult
    /\ \E sel \in Selectors :
           /\ selector' = sel
           /\ sresult' = resolve(resolver[1], sel)
    /\ UNCHANGED resolver
    /\ RsUnchanged

ApplyNext ==
    \/ \E force \in BOOLEAN, backup \in BOOLEAN, git_config \in GitConfigs :
           ApplyBegin(force, backup, git_config)
    \/ PsSnapshot
    \/ PsDrift
    \/ PsWriteAtomic
    \/ PsWritten
    \/ PsWriteRaised
    \/ PsCommit
    \/ PsCommitFailed
    \/ PsCommitRaised
    \/ PsPush
    \/ PsPushFailed
    \/ PsPushRaised
    \/ PsRestored
    \/ PsRestoreRaised

Next ==
    \/ ApplyNext
    \/ PsWriteAtomicRaises

Spec == Init /\ [][Next]_vars

(***************************************************************************)
(* apply_atomic with any Git configuration, in any repository.             *)
(***************************************************************************)
\* One-line replacements of the first line, by every spelling of the paths.
GitMutations == {Mutation(p, "replace", 1, 1, <<"X">>) : p \in {"f1", "./f1", "f2"}}

GitPatchSets ==
    {<<m>> : m \in GitMutations} \cup {<<m1, m2>> : m1 \in GitMutations, m2 \in GitMutations}

GitInit ==
    InitWith({d \in [DiskFiles -> InitContents] :
                  d["f1"] \in {FileOf(n, "lf") : n \in 1..MaxLines}
                      /\ d["f2"] = FileOf(1, "lf")},
             GitPatchSets, Repositories)

GitNext ==
    \/ \E git_config \in AllGitConfigs : ApplyBegin(FALSE, FALSE, git_config)
    \/ PsSnapshot
    \/ PsDrift
    \/ PsWriteAtomic
    \/ PsWritten
    \/ PsWriteRaised
    \/ PsCommit
    \/ PsCommitFailed
    \/ PsCommitRaised
    \/ PsPush
    \/ PsPushFailed
    \/ PsPushRaised
    \/ PsRestored
    \/ PsRestoreRaised
    \/ PsWriteAtomicRaises

GitSpec == GitInit /\ [][GitNext]_vars

(***************************************************************************)
(* Editor.write and apply_atomic, both without force, on the same file.    *)
(***************************************************************************)
RaceInit ==
    InitOn({d \in [DiskFiles -> InitContents] :
                d["f1"] \in {FileOf(n, "lf") : n \in 1..MaxLines}
                    /\ d["f2"] = FileOf(1, "lf")},
           {<<m>> : m \in {x \in Mutations : x.file_path = "f1"}})

RaceNext ==
    \/ IndexFile("f1")
    \/ EditorNew
    \/ \E node \in file_index.nodes, text \in EdTexts : EdReplace(node, text)
    \/ EdWrite(FALSE, FALSE)
    \/ EdWriteAtomic
    \/ EdWritten
    \/ ApplyBegin(FALSE, FALSE, NoGitConfig)
    \/ PsSnapshot
    \/ PsDrift
    \/ PsWriteAtomic
    \/ PsWritten
    \/ PsRestored

RaceSpec == RaceInit /\ [][RaceNext]_vars

(***************************************************************************)
(* One Editor that writes more than once, alone on the file.               *)
(***************************************************************************)
RewriteInit ==
    InitOn({d \in [DiskFiles -> InitContents] : d["f2"] = FileOf(1, "lf")}, {<<>>})

RewriteNext ==
    \/ IndexFile("f1")
    \/ EditorNew
    \/ \E node \in file_index.nodes, text \in Texts : EdReplace(node, text)
    \/ \E force \in BOOLEAN, backup \in BOOLEAN : EdWriteWithin(MaxRewrites, force, backup)
    \/ EdWriteAtomic
    \/ EdWritten

RewriteSpec == RewriteInit /\ [][RewriteNext]_vars

(***************************************************************************)
(* apply_atomic next to another process that writes the same files.        *)
(***************************************************************************)
EnvNext ==
    \/ ValidateCall
    \/ \E force \in BOOLEAN : ApplyBegin(force, FALSE, NoGitConfig)
    \/ PsSnapshot
    \/ PsDrift
    \/ PsWriteAtomic
    \/ PsWritten
    \/ PsRestored
    \/ \E f \in DiskFiles, content \in ExtContents : ExternalWrite(f, content)

EnvSpec == Init /\ [][EnvNext]_vars

(***************************************************************************)
(* apply_atomic and generate_diffs on one file, over every kind of         *)
(* mutation, text and line range.                                          *)
(***************************************************************************)
LinesInit ==
    InitOn({d \in [DiskFiles -> LineContents \cup {FileOf(1, "lf")}] :
                d["f1"] \in LineContents /\ d["f2"] = FileOf(1, "lf")},
           LinePatchSets)

LinesNext ==
    \/ GenerateDiffsCall
    \/ ApplyBegin(FALSE, FALSE, NoGitConfig)
    \/ PsSnapshot
    \/ PsDrift
    \/ PsWriteAtomic
    \/ PsWritten

LinesSpec == LinesInit /\ [][LinesNext]_vars

(***************************************************************************)
(* validate_all and generate_diffs on their own.                           *)
(***************************************************************************)
ValidateInit ==
    InitOn({d \in [DiskFiles -> InitContents] :
                d["f1"] \in {FileOf(n, "lf") : n \in 1..MaxLines}
                    /\ d["f2"] = FileOf(1, "lf")},
           ValidatePatchSets)

ValidateNext ==
    \/ ValidateCall
    \/ GenerateDiffsCall

ValidateSpec == ValidateInit /\ [][ValidateNext]_vars

(***************************************************************************)
(* One Editor on f1, next to another process that writes f1.               *)
(***************************************************************************)
EditorInit ==
    InitOn({d \in [DiskFiles -> InitContents] :
                d["f2"] = FileOf(1, "lf")},
           {<<>>})

EditorNext ==
    \/ IndexFile("f1")
    \/ EditorNew
    \/ \E node \in file_index.nodes, text \in EdTexts : EdReplace(node, text)
    \/ \E text \in EdTexts, line \in 1..(MaxLines + 1) : EdInsertLine(text, line)
    \/ \E node \in file_index.nodes : EdDelete(node)
    \/ \E force \in BOOLEAN, backup \in BOOLEAN : EdWrite(force, backup)
    \/ EdWriteAtomic
    \/ EdWriteAtomicRaises
    \/ EdWritten
    \/ EdWriteRaised
    \/ \E content \in ExtContents : ExternalWrite("f1", content)

EditorSpec == EditorInit /\ [][EditorNext]_vars

(***************************************************************************)
(* One Editor on f1 and its edit operations, on files of every length and  *)
(* ending, with nodes of f1 and nodes of other files.                      *)
(***************************************************************************)
Positions == {"before", "after", "inside-start", "inside-end", "sideways"}

\* Nodes whose path is not the Editor's: of another file, and of the same
\* file spelled differently.
ForeignNodes == Nodes("f2", 1) \cup Nodes("./f1", 1)

EditInit ==
    InitOn({d \in [DiskFiles -> LineContents \cup {FileOf(1, "lf")}] :
                d["f1"] \in LineContents /\ d["f2"] = FileOf(1, "lf")},
           {<<>>})

EditNext ==
    \/ IndexFile("f1")
    \/ EditorNew
    \/ \E node \in file_index.nodes \cup ForeignNodes, text \in Texts :
           EdReplace(node, text)
    \/ \E node \in file_index.nodes \cup ForeignNodes : EdDelete(node)
    \/ \E text \in Texts, line \in {Some(l) : l \in 1..(MaxLines + 2)},
          node \in {Absent} \cup {Some(n) : n \in ForeignNodes} :
           EdInsert(text, line, node, "after")
    \/ \E text \in Texts,
          node \in {Absent} \cup {Some(n) : n \in file_index.nodes \cup ForeignNodes},
          position \in Positions :
           EdInsert(text, Absent, node, position)

EditSpec == EditInit /\ [][EditNext]_vars

(***************************************************************************)
(* One Resolver and one resolve call.                                      *)
(***************************************************************************)
ResolveInit ==
    InitOn({[f \in DiskFiles |-> FileOf(1, "lf")]}, {<<>>})

ResolveNext ==
    \/ ResolverNew
    \/ ResolveCall

ResolveSpec == ResolveInit /\ [][ResolveNext]_vars

(***************************************************************************)
(* Properties.                                                             *)
(***************************************************************************)
Returned == pc = "done"

\* The files the patch set reaches.
Targets == {AbsPath(Keys[i]) : i \in 1..Len(Keys)}

NothingCreated ==
    /\ bak = [f \in DiskFiles |-> Absent]
    /\ tmp = [p \in Procs |-> Absent]
    /\ orphans = 0

Drifted == exc.type = "exception" /\ exc.detail[1] = "drifted"

\* C1: when validate_all reports an error for the patch set, apply_atomic
\* returns success=false and has written, created and backed up nothing:
\* every file holds the bytes it held before the call.
C1_ValidationFailureTouchesNothing ==
    (Returned /\ validate_all(mutations, disk0).errors # <<>>)
        => /\ ~result.success
           /\ result = validate_all(mutations, disk0)
           /\ disk = disk0
           /\ NothingCreated

\* Two files, the first one's mutations valid, the second one's end_line
\* beyond its last line: apply_atomic has returned the failure.
C1_Witness ==
    /\ Returned
    /\ ~result.success
    /\ Len(Keys) = 2
    /\ AbsPath(Keys[1]) # AbsPath(Keys[2])
    /\ FileErrors(Keys[1], FileMutations(mutations, Keys[1]), disk0) = <<>>
    /\ \E e \in Range(result.errors) : e[1] = "end_line > file size" /\ e[2] = Keys[2]

\* C2: when apply_atomic fails after validation passed (a write or a VCS
\* operation failed) and every restoring write succeeded, every file holds on
\* return the bytes that were snapshotted, LF and CRLF files alike.
C2_RollbackRestoresBytes ==
    (Returned /\ ~result.success /\ validate_all(mutations, disk0).success
        /\ rollback_errors = <<>>)
        => disk = disk0

\* C3: once the drift re-check has found a mismatch, apply_atomic replaces no
\* file: no write_atomic call of apply_atomic reaches its rename.
C3_DriftAbortWritesNothing ==
    Drifted => wa["ps"].stage # "done"

\* C4: a target file changed between the caller's successful validate_all and
\* the apply_atomic(force=False) call makes apply_atomic fail and leave every
\* file as it was when apply_atomic was called.
ChangedSinceValidate == \E f \in Targets : disk0[f] # vdisk[f]

C4_ChangeAfterValidateIsRefused ==
    (Returned /\ vresult.success /\ ~args.force /\ ChangedSinceValidate)
        => ~result.success /\ disk = disk0

\* C5: after a successful apply_atomic no file outside the mutated ones has
\* changed, files_modified names exactly the mutated files, and every mutated
\* file holds the modified content generate_diffs computes for the same patch
\* set on the files as they were before the call.
C5_SuccessMatchesGenerateDiffs ==
    (Returned /\ result.success)
        => /\ \A f \in DiskFiles \ Targets : disk[f] = disk0[f]
           /\ {AbsPath(p) : p \in Range(result.files_modified)} = Targets
           /\ \A d \in Range(generate_diffs(mutations, disk0).diffs) :
                  disk[AbsPath(d.file_path)] = d.modified

\* The text a mutation puts into the file: nothing for a delete or an empty
\* text, else the text ended by a newline.
NewText(m) ==
    IF m.operation_kind = "delete" \/ m.text = <<>> THEN <<>>
    ELSE IF m.text[Len(m.text)] = LF THEN m.text ELSE m.text \o <<LF>>

PairwiseDisjoint(fm) ==
    \A i \in 1..Len(fm), j \in 1..Len(fm) :
        i < j => fm[i].end_line < fm[j].start_line \/ fm[j].end_line < fm[i].start_line

\* What becomes of original line i under a set of disjoint mutations: an insert
\* puts its text before the line it names, a replace puts its text in the place
\* of its first line, the other lines of a replace or delete go, every other
\* line stays.
LineAfter(lines, ms, i) ==
    IF \E m \in ms : m.start_line = i
    THEN LET m == CHOOSE x \in ms : x.start_line = i
         IN IF m.operation_kind = "insert" THEN NewText(m) \o lines[i] ELSE NewText(m)
    ELSE IF \E m \in ms : /\ m.operation_kind # "insert"
                           /\ m.start_line < i /\ i <= m.end_line
    THEN <<>>
    ELSE lines[i]

Expected(original, fm) ==
    LET lines == splitlines_keepends(original)
        f[i \in 0..Len(lines)] ==
            IF i = 0 THEN <<>> ELSE f[i - 1] \o LineAfter(lines, Range(fm), i)
    IN f[Len(lines)]

\* C6: for a validated patch set whose mutations on a file have pairwise
\* disjoint line ranges, the content generate_diffs returns for the file, the
\* content apply_atomic computes for it and the text of the file after a
\* successful apply_atomic are the original text with each mutation applied to
\* the original lines it names and all other lines kept in order; the value
\* depends on the set of mutations only, not on the order they were added in.
C6_DisjointMutationsApplyToOriginalLines ==
    \A i \in 1..Len(Keys) :
        LET k == Keys[i]
            fm == FileMutations(mutations, k)
            expected == Expected(ReadText(disk0[AbsPath(k)]), fm)
        IN (/\ validate_all(mutations, disk0).success
            /\ PairwiseDisjoint(fm)
            /\ \A j \in 1..Len(Keys) : AbsPath(Keys[j]) = AbsPath(k) => j = i)
               => /\ dresult.success => dresult.diffs[i].modified = expected
                  /\ modified_files # <<>> => modified_files[i].content = expected
                  /\ (Returned /\ result.success)
                         => ReadText(disk[AbsPath(k)]) = expected

C6_Witness ==
    /\ Returned /\ result.success /\ dresult.success
    /\ Len(mutations) = 2
    /\ PairwiseDisjoint(mutations)
    /\ mutations[1].start_line < mutations[2].start_line
    /\ mutations[1].operation_kind = "insert"
    /\ mutations[1].text = <<"X", LF, "Y", LF>>
    /\ mutations[2].operation_kind = "replace"
    /\ ReadText(disk["f1"]) # ReadText(disk0["f1"])

AllLF(bytes) == CR \notin Range(bytes)

AllCRLF(bytes) ==
    \A i \in 1..Len(bytes) :
        /\ bytes[i] = LF => i > 1 /\ bytes[i - 1] = CR
        /\ bytes[i] = CR => i < Len(bytes) /\ bytes[i + 1] = LF

SameTerminators(old, new) ==
    /\ AllCRLF(old) => AllCRLF(new)
    /\ AllLF(old) => AllLF(new)

\* The lines of old that no mutation of the patch set names are lines of new.
UntouchedLinesKept(f, old, new) ==
    \A i \in 1..LineCount(old) :
        (\A j \in 1..Len(mutations) :
            AbsPath(mutations[j].file_path) = f
                => i < mutations[j].start_line \/ i > mutations[j].end_line)
            => splitlines_keepends(old)[i] \in Range(splitlines_keepends(new))

\* C7: a file whose terminators are all CRLF (all LF) has only CRLF (LF)
\* terminators after a successful apply_atomic and after Editor.write, and the
\* lines outside the edited ranges keep their bytes.
C7_TerminatorsPreserved ==
    /\ (Returned /\ result.success /\ ext = 0)
           => \A f \in Targets : /\ SameTerminators(disk0[f], disk[f])
                                 /\ UntouchedLinesKept(f, disk0[f], disk[f])
    /\ (edout = "written" /\ ext = 0)
           => SameTerminators(edcall0.disk[ed.file_path], disk[ed.file_path])

\* The hash of the file as Editor.write found it when it was called.
HashAtWrite == read_file_with_hash(edcall0.disk[ed.file_path]).hash

WriteProceeded == edout \in {"writing", "written", "OSError"}

\* C8: Editor.write(force=False) on a file whose hash differs from the one
\* taken at Editor construction ends with Drift, and then the Editor has
\* replaced nothing and made no .bak, backup=True or not; a write that was not
\* forced proceeds only on a matching hash, and a forced write never ends
\* with Drift.
C8_DriftRefusesWrite ==
    /\ edout = "Drift"
           => /\ ~edargs.force
              /\ HashAtWrite # ed.content_hash
              /\ bak = edcall0.bak
              /\ orphans = edcall0.orphans
              /\ tmp["ed"] = Absent
              /\ wa["ed"] = WaIdle
              /\ disk[ed.file_path] \in {edcall0.disk[ed.file_path]} \cup ExtContents
    /\ (WriteProceeded /\ ~edargs.force) => HashAtWrite = ed.content_hash

C8_Witness ==
    /\ edout = "Drift"
    /\ edargs.backup
    /\ ext = 1
    /\ edits = 1
    /\ bak[ed.file_path] = Absent
    /\ disk[ed.file_path] \in ExtContents

\* C9: Editor.write(force=False) proceeds only when the file's content at the
\* call is the content that was indexed (FileIndex.content_hash).
C9_WriteRefusedWhenChangedSinceIndexed ==
    (WriteProceeded /\ ~edargs.force) => HashAtWrite = file_index.content_hash

\* C10: in every step that changes a file, some write_atomic call is at its
\* rename, its temp file lies in the directory of the target and holds the whole
\* new content, and the file becomes exactly that content.
C10_TargetChangesOnlyByRename ==
    [][\A f \in DiskFiles :
          disk'[f] # disk[f]
              => \E p \in Procs :
                     /\ wa[p].stage = "replace" /\ wa'[p].stage = "done"
                     /\ wa[p].path = f
                     /\ wa[p].tmp_dir = Parent(f)
                     /\ tmp[p] = Some(Written(wa[p]))
                     /\ disk'[f] = Written(wa[p])]_vars

\* A temp file holds part of the new content while the target still holds
\* all of the old.
C10_Witness ==
    /\ wa["ps"].stage = "close"
    /\ tmp["ps"] # Absent
    /\ tmp["ps"] # Some(<<>>)
    /\ tmp["ps"] # Some(Written(wa["ps"]))
    /\ disk[wa["ps"].path] = disk0[wa["ps"].path]

\* validate_all has been called by the user.
Validated == vresult # NoResult

\* What the rules of validation ask of one mutation, on the files as they
\* were at the call.
ValidMutation(m) ==
    /\ AbsPath(m.file_path) \in DiskFiles
    /\ m.operation_kind \in {"replace", "insert", "delete"}
    /\ 1 <= m.start_line
    /\ m.start_line <= m.end_line
    /\ m.start_line <= LineCount(ReadText(vdisk[AbsPath(m.file_path)]))
    /\ \/ m.operation_kind = "insert"
       \/ m.end_line <= LineCount(ReadText(vdisk[AbsPath(m.file_path)]))

Intersect(a, b) == a.start_line <= b.end_line /\ b.start_line <= a.end_line

SomeIntersect(fm) ==
    \E i \in 1..Len(fm), j \in 1..Len(fm) : i < j /\ Intersect(fm[i], fm[j])

OverlapWarned(r, file_path) ==
    \E w \in Range(r.warnings) : w[1] = "overlap" /\ w[2] = file_path

\* C12: for a file that exists and can be read and whose mutations all have
\* start_line <= end_line, validate_all gives an overlap warning for the file
\* exactly when two of its mutations have intersecting line ranges; and a
\* patch set whose mutations are all valid succeeds, warned or not.
C12_OverlapWarnedIffIntersecting ==
    Validated
        => /\ \A k \in Range(Keys) :
                  LET fm == FileMutations(mutations, k)
                  IN (/\ AbsPath(k) \in DiskFiles
                      /\ \A i \in 1..Len(fm) : fm[i].start_line <= fm[i].end_line)
                         => (OverlapWarned(vresult, k) <=> SomeIntersect(fm))
           /\ (mutations # <<>> /\ \A i \in 1..Len(mutations) : ValidMutation(mutations[i]))
                  => vresult.success

\* Three mutations, the first and the last added intersect, the warning is
\* there and validation succeeds.
C12_Witness ==
    /\ Validated /\ vresult.success
    /\ Len(mutations) = 3
    /\ Intersect(mutations[1], mutations[3])
    /\ ~Intersect(mutations[1], mutations[2])
    /\ OverlapWarned(vresult, "f1")

\* C13: a step in which validate_all or generate_diffs returns changes no
\* file, creates no .bak and no temp file, and leaves the mutation list as it
\* was, whether the call succeeds or fails.
C13_ValidateAndDiffsChangeNothing ==
    [][(vresult' # vresult \/ dresult' # dresult)
          => /\ disk' = disk
             /\ bak' = bak
             /\ tmp' = tmp
             /\ orphans' = orphans
             /\ mutations' = mutations]_vars

\* Both calls have returned, generate_diffs with a changed content for f1.
C13_Witness ==
    /\ Validated /\ vresult.success
    /\ dresult.success
    /\ dresult.diffs[1].modified # ReadText(disk["f1"])
    /\ disk = vdisk
    /\ NothingCreated

\* C14: a result of apply_atomic with success false has an empty
\* files_modified, whatever failed.
C14_FailureListsNoFiles ==
    (Returned /\ ~result.success) => result.files_modified = <<>>

\* C15: an overlap warning validate_all gives for the patch set is in the
\* warnings of the result of generate_diffs and of the result of apply_atomic.
C15_WarningsCarriedOver ==
    \A w \in Range(validate_all(mutations, disk0).warnings) :
        /\ dresult # NoResult => w \in Range(dresult.warnings)
        /\ Returned => w \in Range(result.warnings)

\* The files apply_atomic had replaced when the failure came: none at a drift
\* abort, all at a VCS failure, those before the failing one at a write failure.
ForwardWrites ==
    CASE exc.type = "git" -> Len(modified_files)
      [] exc.type = "exception" /\ exc.detail[1] = "OSError" ->
             (CHOOSE i \in 1..Len(modified_files) :
                  modified_files[i].path = exc.detail[2]) - 1
      [] OTHER -> 0

\* How a failed apply_atomic ended.
Outcome ==
    IF ForwardWrites = 0 THEN "nothing written"
    ELSE IF rollback_errors = <<>> THEN "written and restored"
    ELSE "written, restore failed"

\* The most a caller can read from the result: the message, the kind of the
\* first error and the number of errors.
Classify(r) ==
    IF r.message[1] \in {"Validation failed", "No mutations to validate"}
    THEN "nothing written"
    ELSE IF r.errors[1][2][1] = "drifted" THEN "nothing written"
    ELSE IF Len(r.errors) = 1 THEN "written and restored"
    ELSE "written, restore failed"

\* C16: the result of a failed apply_atomic tells which of the three outcomes
\* the run had: nothing written, written and all restored, written and some
\* restore failed.
C16_FailureOutcomeReadable ==
    (Returned /\ ~result.success) => Classify(result) = Outcome

\* The resolve call has ended, by returning or by raising.
ResolveEnded == sresult # NoSelectorResult

IsResolved(r) == r.exact_match # Absent /\ r.candidates = <<>> /\ r.error = Absent

IsAmbiguous(r) == r.exact_match = Absent /\ Len(r.candidates) >= 2 /\ r.error = Absent

IsNotFound(r) == r.exact_match = Absent /\ r.candidates = <<>> /\ r.error # Absent

\* C17: for every selector string and every resolver, resolve returns
\* without raising, and what it returns is Resolved (exact_match set),
\* Ambiguous (at least two candidates) or NotFound (error set), with the
\* other two fields empty.
C17_ResolveReturnsOneOutcome ==
    ResolveEnded =>
        /\ sresult.raised = "none"
        /\ IsResolved(sresult) \/ IsAmbiguous(sresult) \/ IsNotFound(sresult)

\* C17, the part about the shape of what is returned.
C17_ReturnedShape ==
    (ResolveEnded /\ sresult.raised = "none") =>
        IsResolved(sresult) \/ IsAmbiguous(sresult) \/ IsNotFound(sresult)

\* The text of the line-range selector path:N-M, and of path:N.
RangeText(path, n, m) == path \o <<":", Digits[n + 1], "-", Digits[m + 1]>>

LineText(path, n) == path \o <<":", Digits[n + 1]>>

\* The line numbers the selectors of the model name.
SelectorLines == 1..3

\* The paths that spell the file a path names.
Spellings(path) == IF path \in {PathA, PathDotA} THEN {PathA, PathDotA} ELSE {path}

\* The indexed nodes in encounter order, and those of them a test keeps.
Encountered == IndexedNodes(resolver[1].indices)

Within(node, n, m) == node.start_line >= n /\ node.end_line <= m

\* The nodes of the file lying within [n, m], in encounter order: those
\* indexed under the path as written, or, when there is none, those indexed
\* under any spelling of the file.
Hits(path, n, m) ==
    LET literal == {i \in 1..Len(Encountered) :
                        Encountered[i].path = path /\ Within(Encountered[i], n, m)}
        spelled == {i \in 1..Len(Encountered) :
                        Encountered[i].path \in Spellings(path)
                            /\ Within(Encountered[i], n, m)}
    IN IF literal # {} THEN literal ELSE spelled

Width(node) == node.end_line - node.start_line

\* c lists the nodes at the given positions by ascending width, nodes of
\* equal width in encounter order.
ListsByWidth(c, positions) ==
    /\ Len(c) = Cardinality(positions)
    /\ \A i \in positions : \E k \in 1..Len(c) : c[k] = Encountered[i]
    /\ \A k \in 1..Len(c), l \in 1..Len(c) :
           k < l =>
               \E i \in positions, j \in positions :
                   /\ c[k] = Encountered[i]
                   /\ c[l] = Encountered[j]
                   /\ Width(c[k]) < Width(c[l]) \/ (Width(c[k]) = Width(c[l]) /\ i < j)

LineRangeOutcome(path, n, m) ==
    LET hits == Hits(path, n, m)
    IN /\ Cardinality(hits) = 1 =>
              /\ IsResolved(sresult)
              /\ \A i \in hits : sresult.exact_match = Some(Encountered[i])
       /\ Cardinality(hits) >= 2 =>
              /\ IsAmbiguous(sresult)
              /\ ListsByWidth(sresult.candidates, hits)

NodesOfFile(path) ==
    {Encountered[i] : i \in {j \in 1..Len(Encountered) :
                                 Encountered[j].path \in Spellings(path)}}

\* The error lists one to three nodes of the file, each by name and span.
ListsNodesOf(error, path) ==
    /\ Len(error) = 6
    /\ error[5] = "Available"
    /\ Len(error[6]) \in 1..3
    /\ \A k \in 1..Len(error[6]) :
           \E node \in NodesOfFile(path) :
               error[6][k] = <<node.name, node.start_line, node.end_line>>

NoHitOutcome(path, n, m) ==
    (NodesOfFile(path) # {} /\ \A node \in NodesOfFile(path) : ~Within(node, n, m)) =>
        /\ IsNotFound(sresult)
        /\ ListsNodesOf(sresult.error[1], path)

\* C19: when a line-range selector names an indexed file and no node of
\* that file lies within [N, M], resolve returns NotFound, and the error
\* lists up to 3 nodes of that file, each with its name and line span.
C19_NoHitListsNodesOfFile ==
    ResolveEnded =>
        \A path \in SelectorPaths \ {PathTilde}, n \in SelectorLines, m \in SelectorLines :
            /\ selector = RangeText(path, n, m) => NoHitOutcome(path, n, m)
            /\ selector = LineText(path, n) => NoHitOutcome(path, n, n)

\* The text of the structural selector path:kind:name.
StructuralText(path, kind, name) == path \o <<":">> \o kind \o <<":">> \o name

\* The names a node answers to: its own, and parent/own for an indexed parent.
NamesOf(node) ==
    {node.name} \cup
        {parent.name \o <<"/">> \o node.name :
            parent \in {x \in Range(Encountered) : node.parent_id = Some(x.id)}}

\* The nodes at the path with that kind and name: those indexed under the
\* path as written, or, when there is none, under any spelling of the file.
StructuralHits(path, kind, name) ==
    LET literal == {x \in Range(Encountered) :
                        x.path = path /\ x.kind = kind /\ name \in NamesOf(x)}
        spelled == {x \in Range(Encountered) :
                        x.path \in Spellings(path) /\ x.kind = kind /\ name \in NamesOf(x)}
    IN IF literal # {} THEN literal ELSE spelled

\* The nodes a result returns.
ReturnedNodes(r) ==
    Range(r.candidates) \cup (IF r.exact_match = Absent THEN {} ELSE {r.exact_match[1]})

StructuralOutcome(path, kind, name) ==
    LET hits == StructuralHits(path, kind, name)
    IN /\ hits = {} => IsNotFound(sresult)
       /\ Cardinality(hits) = 1 => IsResolved(sresult) /\ ReturnedNodes(sresult) = hits
       /\ Cardinality(hits) >= 2 =>
              /\ IsAmbiguous(sresult)
              /\ Len(sresult.candidates) = Cardinality(hits)
              /\ ReturnedNodes(sresult) = hits
       /\ \A node \in ReturnedNodes(sresult) :
              node.path \in Spellings(path) /\ node.kind = kind

\* C20: for a structural selector path:kind:name resolve returns NotFound
\* when no node at that path has that kind and name, Resolved when exactly
\* one has, Ambiguous listing all of them when several have; it never
\* returns a node of another file or of another kind.
C20_StructuralResolvesKindAndName ==
    ResolveEnded =>
        \A path \in SelectorPaths \ {PathTilde}, kind \in NodeKinds, name \in SelectorNames :
            selector = StructuralText(path, kind, name) =>
                StructuralOutcome(path, kind, name)

\* The selector is a bare name: no colon in it, and no indexed node has it as id.
BareName ==
    /\ Count(selector, ":") = 0
    /\ \A x \in Range(Encountered) : x.id # selector

\* The positions of the nodes whose name equals the selector or resembles
\* it with a ratio above 0.6.
Survivors ==
    {i \in 1..Len(Encountered) :
        \/ Encountered[i].name = selector
        \/ 5 * Ratio(Encountered[i].name, selector).num
               > 3 * Ratio(Encountered[i].name, selector).den}

\* The node at position j goes before the node at position i: its score is
\* higher, or equal and it was met first.
GoesBefore(j, i) ==
    LET a == Score(Encountered[j], selector)
        b == Score(Encountered[i], selector)
    IN \/ a.num * b.den > b.num * a.den
       \/ a.num * b.den = b.num * a.den /\ j < i

\* The survivor with k - 1 survivors before it.
Ranked(k) ==
    Encountered[CHOOSE i \in Survivors :
                    Cardinality({j \in Survivors : GoesBefore(j, i)}) = k - 1]

\* C21: in the fuzzy fallback for a bare name the surviving candidates are
\* the nodes whose name equals the selector or whose similarity ratio is
\* above 0.6, by descending score, equal scores in encounter order; one
\* survivor gives Resolved (even with a score below 1.0), two or more give
\* Ambiguous with the first 10 of them, none gives NotFound.
C21_FuzzyKeepsBestMatches ==
    (ResolveEnded /\ BareName) =>
        /\ Survivors = {} => IsNotFound(sresult)
        /\ Cardinality(Survivors) = 1 =>
               IsResolved(sresult) /\ sresult.exact_match = Some(Ranked(1))
        /\ Cardinality(Survivors) >= 2 =>
               /\ IsAmbiguous(sresult)
               /\ sresult.candidates
                      = [k \in 1..Min(10, Cardinality(Survivors)) |-> Ranked(k)]

\* Eleven nodes survive for the name m: the ten named m are listed, and the
\* one named mn, met first and scored lower, is cut off.
C21_Witness ==
    /\ ResolveEnded
    /\ selector = <<"m">>
    /\ Cardinality(Survivors) > 10
    /\ Len(sresult.candidates) = 10
    /\ Encountered[1] \notin Range(sresult.candidates)
    /\ Score(Encountered[1], selector).num < Score(Encountered[1], selector).den

\* The last edit call addressed a node, and the node's path is not the
\* Editor's file.
ForeignNodeCall ==
    /\ edop.op \in {"replace", "delete"} \/ (edop.op = "insert" /\ edop.line = Absent)
    /\ edop.node # Absent
    /\ edop.node[1].path # ed.file_path

\* C22: Editor.replace, Editor.delete and Editor.insert(node=...) called
\* with a node whose path differs from the Editor's file fail with
\* ValueError and leave the Editor's current buffer and the file on disk
\* as they were.
C22_ForeignNodeRefused ==
    ForeignNodeCall =>
        /\ edout = "ValueError"
        /\ ed.current_content = edop.before
        /\ disk = disk0

\* Editor.replace was called with a text and a node of file f2, and raised.
C22_Witness ==
    /\ ForeignNodeCall
    /\ edop.op = "replace"
    /\ edop.node[1].path = "f2"
    /\ edop.text # <<>>
    /\ edout = "ValueError"

\* The line the last insert call inserted before, when it inserted.
InsertedAt ==
    IF edop.line # Absent THEN edop.line[1] ELSE InsertLine(edop.node[1], edop.position)

\* The lines of the inserted text, the last one ended if it was not.
InsertedLines ==
    IF edop.text = <<>> THEN <<>>
    ELSE IF edop.text[Len(edop.text)] = LF THEN splitlines_keepends(edop.text)
    ELSE splitlines_keepends(edop.text \o <<LF>>)

\* C23: an Insert at line s, 1 <= s <= line count + 1, yields the original
\* lines 1..s-1, then the lines of the inserted text, then the original
\* lines s..n, every original line byte for byte; also when the last line
\* of the buffer has no terminator and s is line count + 1.
C23_InsertSplicesLines ==
    (edop.op = "insert" /\ edout = "edited"
        /\ InsertedAt >= 1 /\ InsertedAt <= LineCount(edop.before) + 1) =>
        LET old == splitlines_keepends(edop.before)
        IN splitlines_keepends(ed.current_content)
               = SubSeq(old, 1, InsertedAt - 1) \o InsertedLines
                     \o SubSeq(old, InsertedAt, Len(old))

(***************************************************************************)
(* The Git steps of apply_atomic.                                          *)
(***************************************************************************)
\* What GitRepo.prepare_for_patch would raise on: no repository, or a dirty
\* tree without allow_dirty.
PrePatchCheckFails ==
    \/ ~repo.is_git_repo
    \/ ~repo.is_clean /\ ~args.git_config.allow_dirty

\* C24: when a git_config is passed and the pre-patch repository check fails
\* (the root is no Git repository, or the tree is dirty and allow_dirty is
\* off), apply_atomic writes no file and returns a failure.
C24_FailedCheckWritesNothing ==
    (pc # "idle" /\ args.git_config.given /\ PrePatchCheckFails)
        => /\ disk = disk0
           /\ pc = "done" => ~result.success

\* The snapshot entries whose restore raised.
FailedRestores == {rollback_errors[i][2] : i \in 1..Len(rollback_errors)}

\* C25: when the restore of some file raises during the rollback, every other
\* snapshotted file is still restored, the errors of the returned result are
\* the original failure followed by one entry per file whose restore raised,
\* and apply_atomic returns a result.
C25_RollbackGoesOn ==
    (pc = "done" /\ rollback_errors # <<>>)
        => /\ ~result.success
           /\ Len(result.errors) = 1 + Len(rollback_errors)
           /\ result.errors[1][2] = exc.detail
           /\ \A i \in 1..Len(rollback_errors) :
                  /\ result.errors[i + 1] = rollback_errors[i]
                  /\ rollback_errors[i][1] = "Rollback"
                  /\ rollback_errors[i][2] \in Range(PathsOf(file_states))
           /\ Cardinality(FailedRestores) = Len(rollback_errors)
           /\ \A i \in 1..Len(file_states) :
                  file_states[i].path \notin FailedRestores
                      => disk[AbsPath(file_states[i].path)] = Written(RestoreWrite(file_states[i]))

\* Of two files written and committed, the restore of the first raised and
\* the second holds its snapshot again.
C25_Witness ==
    /\ pc = "done"
    /\ exc.type = "git"
    /\ Len(file_states) = 2
    /\ AbsPath(file_states[1].path) # AbsPath(file_states[2].path)
    /\ rollback_errors = << <<"Rollback", file_states[1].path>> >>
    /\ disk[AbsPath(file_states[1].path)] # disk0[AbsPath(file_states[1].path)]
    /\ disk[AbsPath(file_states[2].path)] = disk0[AbsPath(file_states[2].path)]
    /\ Len(repo.commits) = 1

(***************************************************************************)
(* Two invocations on one file.                                            *)
(***************************************************************************)
\* The invocation has passed its drift check and has not returned yet.
PastCheck(p) == IF p = "ps" THEN pc = "write" ELSE edpc = "write"

\* The invocation has returned without an error.
ReturnedFine(p) ==
    IF p = "ps" THEN pc = "done" /\ result.success /\ result.errors = <<>>
    ELSE edpc = "ready" /\ edout = "written"

\* C26: an invocation that has passed its drift check does not look at the
\* file again: whatever the other invocation does meanwhile, it goes on to
\* return without reporting Drift, and its rename puts its own content in the
\* place of whatever the file holds by then.
C26_RaceUnnoticed ==
    [][\A p \in Procs :
           PastCheck(p)
               => /\ PastCheck(p)' \/ ReturnedFine(p)'
                  /\ (wa[p].stage = "replace" /\ wa'[p].stage = "done")
                         => disk'[wa[p].path] = Written(wa[p])]_vars

\* Both invocations checked against the same content, both changed it, both
\* returned without an error, and the file holds what apply_atomic wrote: the
\* Editor's content is gone.
C26_Witness ==
    /\ ReturnedFine("ps")
    /\ ReturnedFine("ed")
    /\ file_states[1].hash = ed.content_hash
    /\ read_file_with_hash(disk0["f1"]).hash = ed.content_hash
    /\ WriteText(restore_newlines(ed.current_content, ed.newline_mode)) # disk0["f1"]
    /\ disk["f1"] # disk0["f1"]
    /\ disk["f1"] # WriteText(restore_newlines(ed.current_content, ed.newline_mode))
    /\ disk["f1"] = WriteText(restore_newlines(modified_files[1].content, modified_files[1].mode))

\* The last entry of modified_files that reaches the same file as entry i.
LastWriteTo(i) ==
    CHOOSE j \in i..Len(modified_files) :
        /\ AbsPath(modified_files[j].path) = AbsPath(modified_files[i].path)
        /\ \A k \in (j + 1)..Len(modified_files) :
               AbsPath(modified_files[k].path) # AbsPath(modified_files[i].path)

\* Every write of the call is over and none has failed: nothing is open, no
\* exception was met, and every file holds what was last written to it.
AllWritten ==
    /\ exc = NoException
    /\ tmp["ps"] = Absent
    /\ wa["ps"] = WaIdle
    /\ modified_files # <<>>
    /\ \A i \in 1..Len(modified_files) :
           disk[AbsPath(modified_files[i].path)]
               = WriteText(restore_newlines(modified_files[LastWriteTo(i)].content,
                                            modified_files[LastWriteTo(i)].mode))

\* C27: apply_atomic calls Git, and changes the repository, only with a
\* git_config whose auto_commit is on; the first call is stage_and_commit and
\* it comes when every file write of the call is over without failure;
\* get_current_branch and push_to_remote come only with auto_push on, right
\* after stage_and_commit returned in the same call.
C27_VcsOnlyAsConfigured ==
    [][/\ repo' # repo => vcslog' # vcslog
       /\ vcslog' # vcslog
              => /\ args.git_config.given
                 /\ args.git_config.auto_commit
                 /\ IF vcslog = <<>>
                    THEN /\ Len(vcslog') = 1
                         /\ vcslog'[1][1] = "stage_and_commit"
                         /\ vcslog'[1][2] = PathsOf(modified_files)
                         /\ AllWritten
                    ELSE /\ args.git_config.auto_push
                         /\ vcslog = << <<"stage_and_commit", PathsOf(modified_files),
                                          "returned">> >>
                         /\ Len(vcslog') = 3
                         /\ vcslog'[1] = vcslog[1]
                         /\ vcslog'[2] = <<"get_current_branch">>
                         /\ vcslog'[3][1] = "push_to_remote"]_vars

\* Two files were written, then committed, then the commit was pushed.
C27_Witness ==
    /\ pc = "done"
    /\ result.success
    /\ Len(modified_files) = 2
    /\ AbsPath(modified_files[1].path) # AbsPath(modified_files[2].path)
    /\ Len(vcslog) = 3
    /\ vcslog[3] = <<"push_to_remote", "returned">>
    /\ Len(repo.commits) = 1
    /\ repo.pushed = 1

(***************************************************************************)
(* Mutations that name one file by different strings.                      *)
(***************************************************************************)
\* The mutations of the patch set that reach file f, whatever they call it.
MutationsOn(f) ==
    LET Reaches(m) == AbsPath(m.file_path) = f IN SelectSeq(mutations, Reaches)

\* The bytes of f when all of them are applied to one buffer and written.
WrittenTogether(f) ==
    LET original == read_file_with_hash(disk0[f]).content
    IN WriteText(restore_newlines(ModifiedContent(original, MutationsOn(f)),
                                  normalize_newlines(original).mode))

\* C28: after a successful apply_atomic every file holds the result of
\* applying all the mutations that reach it, under whatever spelling of its
\* path, to one buffer; none of them is lost.
C28_AliasedMutationsApplied ==
    (pc = "done" /\ result.success)
        => \A f \in DiskFiles :
               (MutationsOn(f) # <<>> /\ PairwiseDisjoint(MutationsOn(f)))
                   => disk[f] = WrittenTogether(f)

(***************************************************************************)
(* Editor.write after Editor.write.                                        *)
(***************************************************************************)
\* The file as the Editor's last write_atomic call leaves it.
EditorWrites == WriteText(restore_newlines(ed.current_content, ed.newline_mode))

\* The text of the file, as read_file_with_hash reads it, is no longer the
\* text the Editor read when it was built.
ContentChanged(fs) == read_file_with_hash(fs["f1"]).content # ed.original_content

\* The last call on the Editor was write, not an edit.
LastCallWasWrite == edout \in {"Drift", "writing", "written"}

\* C29: Editor.write keeps the hash taken when the Editor was built.  When a
\* write of the Editor has changed the content of the file, a further write
\* without force raises Drift and leaves files, backups and temp files as
\* they are, and a further write with force goes through and the file holds
\* the buffer.
C29_BaselineNotRefreshed ==
    (edwrites >= 2 /\ LastCallWasWrite /\ ContentChanged(edcall0.disk))
        => IF edargs.force
           THEN /\ edout \in {"writing", "written"}
                /\ edout = "written" => disk["f1"] = EditorWrites
           ELSE /\ edout = "Drift"
                /\ edpc = "ready"
                /\ disk = edcall0.disk
                /\ bak = edcall0.bak
                /\ tmp["ed"] = Absent

\* The second write, without force, met Drift after the first had changed the file.
C29_Witness ==
    /\ edwrites = 2
    /\ ~edargs.force
    /\ edout = "Drift"
    /\ ContentChanged(disk)
    /\ disk["f1"] = EditorWrites

(***************************************************************************)
(* A push that fails after the commit.                                     *)
(***************************************************************************)
\* apply_atomic has returned after stage_and_commit returned and
\* push_to_remote raised.
PushFailedAfterCommit ==
    /\ pc = "done"
    /\ Len(vcslog) = 3
    /\ vcslog[1][3] = "returned"
    /\ vcslog[3][1] = "push_to_remote"
    /\ vcslog[3][2] # "returned"

\* C30: when stage_and_commit succeeded and push_to_remote then failed,
\* apply_atomic returns a failure, every file whose restore did not itself
\* fail holds its snapshot again, and the repository still has the commit
\* with the patched content, which was not pushed.
C30_CommitStaysAfterFailedPush ==
    PushFailedAfterCommit
        => /\ ~result.success
           /\ \A i \in 1..Len(file_states) :
                  file_states[i].path \notin FailedRestores
                      => disk[AbsPath(file_states[i].path)] = Written(RestoreWrite(file_states[i]))
           /\ rollback_errors = <<>> => disk = disk0
           /\ Len(repo.commits) = 1
           /\ repo.pushed = 0
           /\ \A i \in 1..Len(modified_files) :
                  /\ repo.commits[1][i].path = AbsPath(modified_files[i].path)
                  /\ repo.commits[1][i].content
                         = WriteText(restore_newlines(modified_files[LastWriteTo(i)].content,
                                                      modified_files[LastWriteTo(i)].mode))
                  /\ repo.commits[1][i].content # disk0[AbsPath(modified_files[i].path)]

\* The push raised PushFailed, every file is back at its snapshot, and the
\* commit holds other content than the files.
C30_Witness ==
    /\ PushFailedAfterCommit
    /\ vcslog[3][2] = "PushFailed"
    /\ rollback_errors = <<>>
    /\ disk = disk0
    /\ Len(repo.commits) = 1
    /\ repo.commits[1][1].content # disk[repo.commits[1][1].path]

====
